---- MODULE Spec2Model ----
(***************************************************************************)
(* Model of the RxView enhancement pipeline (DrugService + OpenAIService   *)
(* + CacheService) and of the MCP tool adapter (McpService).               *)
(*                                                                         *)
(* Text that the code inspects character by character (names, label        *)
(* fields) is a sequence of one-character strings; text that the code only *)
(* builds (titles, messages) is a TLA+ string.                             *)
(***************************************************************************)
EXTENDS Integers, Sequences, FiniteSets, TLC

\* ------------------------------------------------------------------ bounds
\* Total number of getEnhancedContent / MCP requests started in a behaviour.
MaxRequests == 2
\* Total number of cache entries the TTL clock is allowed to expire.
MaxExpiries == 1

\* The requests that may be in flight at the same time (no single-flight lock).
Procs == {1, 2}

\* ------------------------------------------------------- JavaScript values
\* JavaScript's undefined, where a string was expected.
Undefined == "<undefined>"

UpperChars == <<"A","B","C","D","E","F","G","H","I","J","K","L","M",
                "N","O","P","Q","R","S","T","U","V","W","X","Y","Z">>
LowerChars == <<"a","b","c","d","e","f","g","h","i","j","k","l","m",
                "n","o","p","q","r","s","t","u","v","w","x","y","z">>
DigitChars == <<"0","1","2","3","4","5","6","7","8","9">>

Range(s) == {s[i] : i \in DOMAIN s}

\* String.prototype.toLowerCase on one character.
LowerChar(c) ==
  IF \E i \in DOMAIN UpperChars : UpperChars[i] = c
  THEN LowerChars[CHOOSE i \in DOMAIN UpperChars : UpperChars[i] = c]
  ELSE c

\* String.prototype.toLowerCase.
ToLowerCase(s) == [i \in DOMAIN s |-> LowerChar(s[i])]

\* Regular expression class \s.
IsSpace(c) == c \in {" ", "\t", "\n"}

\* Regular expression class \w.
IsWord(c) == c \in Range(UpperChars) \cup Range(LowerChars) \cup Range(DigitChars) \cup {"_"}

\* String.prototype.trim.
RECURSIVE TrimLeft(_)
TrimLeft(s) == IF s # <<>> /\ IsSpace(Head(s)) THEN TrimLeft(Tail(s)) ELSE s
RECURSIVE TrimRight(_)
TrimRight(s) ==
  IF s # <<>> /\ IsSpace(s[Len(s)]) THEN TrimRight(SubSeq(s, 1, Len(s) - 1)) ELSE s
Trim(s) == TrimRight(TrimLeft(s))

\* The JavaScript string with the characters of s.
RECURSIVE Str(_)
Str(s) == IF s = <<>> THEN "" ELSE Head(s) \o Str(Tail(s))

\* replace(/-/g, ' ')
HyphensToSpaces(s) == [i \in DOMAIN s |-> IF s[i] = "-" THEN " " ELSE s[i]]

\* replace(/[^\w\s-]/g, '')
RECURSIVE KeepSlugChars(_)
KeepSlugChars(s) ==
  IF s = <<>> THEN <<>>
  ELSE IF IsWord(Head(s)) \/ IsSpace(Head(s)) \/ Head(s) = "-"
       THEN <<Head(s)>> \o KeepSlugChars(Tail(s))
       ELSE KeepSlugChars(Tail(s))

\* replace(/\s+/g, '-')
RECURSIVE SpacesToHyphen(_)
SpacesToHyphen(s) ==
  IF s = <<>> THEN <<>>
  ELSE IF IsSpace(Head(s))
       THEN <<"-">> \o SpacesToHyphen(TrimLeft(s))
       ELSE <<Head(s)>> \o SpacesToHyphen(Tail(s))

\* DrugService.createSlug: toLowerCase, the two replacements, trim, each stage
\* applied to the string the stage before it produced.
createSlug(text) ==
  CHOOSE slug \in
    {Str(trimmed) : trimmed \in
       {Trim(hyphened) : hyphened \in
          {SpacesToHyphen(kept) : kept \in
             {KeepSlugChars(lower) : lower \in {ToLowerCase(text)}}}}} : TRUE

\* ------------------------------------------------------------ the catalog
\* The twelve label fields, in the order of sectionMappings.
SectionKeys == <<"indicationsAndUsage", "dosageAndAdministration",
                 "dosageFormsAndStrengths", "warningsAndPrecautions",
                 "adverseReactions", "clinicalPharmacology", "clinicalStudies",
                 "howSupplied", "useInSpecificPopulations", "description",
                 "nonclinicalToxicology", "instructionsForUse">>

SectionTitles == <<"Indications and Usage", "Dosage and Administration",
                   "Dosage Forms and Strengths", "Warnings and Precautions",
                   "Adverse Reactions", "Clinical Pharmacology", "Clinical Studies",
                   "How Supplied/Storage and Handling", "Use in Specific Populations",
                   "Description", "Nonclinical Toxicology", "Instructions for Use">>

\* A label: the generic name and the populated fields (a field that is not in
\* the domain of fields is undefined in the record).
Aspirin ==
  [ setId    |-> "123",
    drugName |-> <<"A","s","p","i","r","i","n">>,
    labeler  |-> <<"T","e","s","t"," ","P","h","a","r","m","a">>,
    genericName |-> <<"a","c","e","t","y","l","s","a","l","i","c","y","l","i","c","-","a","c","i","d">>,
    fields   |-> [k \in {"indicationsAndUsage", "dosageAndAdministration"} |->
                    IF k = "indicationsAndUsage"
                    THEN <<"P","a","i","n"," ","r","e","l","i","e","f">>
                    ELSE <<"3","2","5","m","g"," ","d","a","i","l","y">>] ]

TylenolPM ==
  [ setId    |-> "456",
    drugName |-> <<"T","y","l","e","n","o","l"," ","P","M">>,
    labeler  |-> <<"K","e","n","v","u","e">>,
    genericName |-> <<"a","c","e","t","a","m","i","n","o","p","h","e","n">>,
    fields   |-> [k \in {"warningsAndPrecautions", "description", "howSupplied"} |->
                    IF k = "warningsAndPrecautions"
                    THEN <<"L","i","v","e","r">>
                    ELSE IF k = "description" THEN <<" ">> ELSE <<>>] ]

\* DrugService.drugs after loadDrugData.
Drugs == <<Aspirin, TylenolPM>>

DrugIds == DOMAIN Drugs

\* drug.label[key]: the field's text, or undefined.
HasField(drug, key) == key \in DOMAIN drug.fields

\* A table walk that takes every field the label has, empty or not.
FieldPresent(drug, key) == key \in DOMAIN drug.fields

\* JavaScript truthiness of drug.label[key] (undefined and '' are falsy).
FieldTruthy(drug, key) == HasField(drug, key) /\ drug.fields[key] # <<>>

\* DrugService.buildDrugSections: one section per truthy field, in table order,
\* order counting from 1.
RECURSIVE buildFrom(_, _, _)
buildFrom(drug, i, order) ==
  IF i > Len(SectionKeys) THEN <<>>
  ELSE IF FieldTruthy(drug, SectionKeys[i])
       THEN <<[ id      |-> drug.setId \o "-" \o SectionKeys[i],
                title   |-> SectionTitles[i],
                content |-> Str(drug.fields[SectionKeys[i]]),
                order   |-> order ]>> \o buildFrom(drug, i + 1, order + 1)
       ELSE buildFrom(drug, i + 1, order)

buildDrugSections(drug) == buildFrom(drug, 1, 1)

\* DrugService.getSectionKeyFromTitle
getSectionKeyFromTitle(title) ==
  IF \E i \in DOMAIN SectionTitles : SectionTitles[i] = title
  THEN SectionKeys[CHOOSE i \in DOMAIN SectionTitles : SectionTitles[i] = title]
  ELSE ""

\* ------------------------------------------------------------ JSON values
\* JSON null.
JsonNull == [kind |-> "null", props |-> <<>>]
\* A JSON object with the given string-valued properties.
JsonObject(props) == [kind |-> "object", props |-> props]
\* value.name in JavaScript, for an object value: undefined when missing.
Prop(value, name) == IF name \in DOMAIN value.props THEN value.props[name] ELSE Undefined

\* A text returned by the provider: either the serialisation of a JSON value or
\* characters that are not JSON.
JsonDoc(value) == [syntax |-> "json", chars |-> <<"{">>, value |-> value]
Prose(chars) == [syntax |-> "prose", chars |-> chars, value |-> JsonNull]

\* JSON.parse(text): the value, or a SyntaxError.
JSONParse(text) ==
  IF text.syntax = "json" THEN [ok |-> TRUE, value |-> text.value]
  ELSE [ok |-> FALSE, value |-> JsonNull]

\* ------------------------------------------------------------ the provider
\* Errors a provider call rejects with, and the errors thrown locally.
NoError == [status |-> 0, code |-> "", message |-> ""]
E429 == [status |-> 429, code |-> "", message |-> "429 Too Many Requests"]
ERateCode == [status |-> 0, code |-> "rate_limit_exceeded", message |-> "Rate limit reached"]
E500 == [status |-> 500, code |-> "", message |-> "500 Internal Server Error"]
ENoResponse == [status |-> 0, code |-> "", message |-> "No response from OpenAI"]
ESyntax == [status |-> 0, code |-> "", message |-> "Unexpected token in JSON"]

\* One answer of the provider to one call: a rejection or a completion text.
Rejected(e) == [kind |-> "reject", error |-> e, text |-> Prose(<<>>)]
Completed(t) == [kind |-> "content", error |-> NoError, text |-> t]

\* What chat.completions.create may answer to the SEO prompt.
SeoTexts ==
  { JsonDoc(JsonObject([title |-> "Aspirin 81mg", description |-> "Uses and dosing"])),
    JsonDoc(JsonObject([k \in {} |-> ""])),
    JsonDoc(JsonNull),
    Prose(<<"S","u","r","e","!">>),
    Prose(<<>>) }

\* What chat.completions.create may answer to the summary prompt.
SummaryTexts ==
  { Prose(<<" ","A","n"," ","N","S","A","I","D","."," ">>),
    Prose(<<" ">>) }

\* The provider's behaviour over the calls of one Gateway operation: the
\* answers to the first calls, then the answer to every later call.
AnswerAt(script, k) ==
  IF k <= Len(script.fails) THEN script.fails[k] ELSE script.final

\* ------------------------------------------------------------- OpenAIService
maxRetries == 3
baseDelay == 1000
otherDelay == 500
SeoTtl == 86400
SummaryTtl == 86400
SectionsTtl == 86400
AllSectionsTtl == 3600
ContentTtl == 3600

\* OpenAIService.getFallbackSEOMetadata
getFallbackSEOMetadata(drug) ==
  JsonObject(
    [ title |-> Str(drug.drugName) \o " (" \o Str(drug.genericName) \o ") - Prescription Info",
      description |-> "Complete prescribing information for " \o Str(drug.drugName)
                      \o " (" \o Str(drug.genericName) \o ") by " \o Str(drug.labeler)
                      \o ". Dosage, side effects, warnings & more." ])

\* A fallback summary in the words of DrugService's catch block.
getFallbackSummaryShort(drug) ==
  Str(drug.drugName) \o " is a prescription medication containing " \o Str(drug.genericName) \o "."

\* OpenAIService.getFallbackSummary
getFallbackSummary(drug) ==
  Str(drug.drugName) \o " is a prescription medication containing the active ingredient "
    \o Str(drug.genericName) \o ", manufactured by " \o Str(drug.labeler) \o "."

\* A rate-limit test that looks at the status only.
IsRateLimitStatusOnly(error) == error.status = 429

\* The rate-limit test of callOpenAIWithRetry.
IsRateLimit(error) == error.status = 429 \/ error.code = "rate_limit_exceeded"

RECURSIVE Pow2(_)
Pow2(n) == IF n = 0 THEN 1 ELSE 2 * Pow2(n - 1)

\* A catch block that does not count the attempts that were rate limited.
RetryDecisionSparingRateLimits(attempt, error) ==
  IF attempt >= maxRetries
     /\ ~((error.status = 429 \/ error.code = "rate_limit_exceeded") /\ attempt < 2 * maxRetries)
  THEN [rethrow |-> TRUE, delay |-> 0]
  ELSE [rethrow |-> FALSE,
        delay |-> IF error.status = 429 \/ error.code = "rate_limit_exceeded"
                  THEN baseDelay * (2 ^ (attempt - 1)) ELSE otherDelay]

\* A catch block that allows one attempt more.
RetryDecisionOneMore(attempt, error) ==
  IF attempt > maxRetries
  THEN [rethrow |-> TRUE, delay |-> 0]
  ELSE [rethrow |-> FALSE,
        delay |-> IF error.status = 429 \/ error.code = "rate_limit_exceeded"
                  THEN baseDelay * (2 ^ (attempt - 1)) ELSE otherDelay]

\* callOpenAIWithRetry's catch block at the given attempt: rethrow, or the
\* wait before the next attempt.
RetryDecision(attempt, error) ==
  IF attempt >= maxRetries
  THEN [rethrow |-> TRUE, delay |-> 0]
  ELSE [rethrow |-> FALSE,
        delay |-> IF IsRateLimit(error) THEN baseDelay * Pow2(attempt - 1) ELSE otherDelay]

\* What one invocation of an operation closure does: throw, or resolve to a
\* value, which it has stored in the cache or not.
Throws(e) == [threw |-> TRUE, error |-> e, value |-> JsonNull, stored |-> FALSE]
Resolves(v, stored) == [threw |-> FALSE, error |-> NoError, value |-> v, stored |-> stored]

\* callOpenAIWithRetry(operation, drug, attempt), where outcome[k] is what the
\* k-th invocation of operation does. The run records the calls made, the
\* errors caught and the waits slept.
RECURSIVE callOpenAIWithRetry(_, _)
callOpenAIWithRetry(outcome, attempt) ==
  LET this == outcome[attempt] IN
  IF ~this.threw
  THEN [threw |-> FALSE, error |-> NoError, value |-> this.value, stored |-> this.stored,
        calls |-> 1, errors |-> <<>>, delays |-> <<>>]
  ELSE LET decision == RetryDecision(attempt, this.error) IN
       IF decision.rethrow
       THEN [threw |-> TRUE, error |-> this.error, value |-> JsonNull, stored |-> FALSE,
             calls |-> 1, errors |-> <<this.error>>, delays |-> <<>>]
       ELSE LET rest == callOpenAIWithRetry(outcome, attempt + 1) IN
            [rest EXCEPT !.calls = @ + 1,
                         !.errors = <<this.error>> \o @,
                         !.delays = <<decision.delay>> \o @]

\* The closure of generateSEOMetadata on one provider answer.
SeoClosure(drug, answer) ==
  IF answer.kind = "reject" THEN Throws(answer.error)
  ELSE IF answer.text.syntax = "prose" /\ answer.text.chars = <<>> THEN Throws(ENoResponse)
  ELSE LET parsed == JSONParse(answer.text) IN
       IF parsed.ok THEN Resolves(parsed.value, TRUE)
       ELSE Resolves(getFallbackSEOMetadata(drug), FALSE)

\* The closure of generateDrugSummary on one provider answer.
SummaryClosure(drug, answer) ==
  IF answer.kind = "reject" THEN Throws(answer.error)
  ELSE LET response == Str(Trim(answer.text.chars)) IN
       Resolves(IF response # "" THEN response ELSE getFallbackSummary(drug), TRUE)

\* A closure that answers text it cannot parse with an empty map.
BatchClosureEmptyOnBadText(drug, answer) ==
  IF answer.kind = "reject" THEN Throws(answer.error)
  ELSE IF answer.text.syntax = "json" THEN Resolves(answer.text.value, TRUE)
  ELSE Resolves(JsonObject([k \in {} |-> ""]), FALSE)

\* The closure of enhanceAllSections on one provider answer.
BatchClosure(drug, answer) ==
  IF answer.kind = "reject" THEN Throws(answer.error)
  ELSE LET parsed == JSONParse(answer.text) IN
       IF parsed.ok THEN Resolves(parsed.value, TRUE) ELSE Throws(ESyntax)

\* The provider is called at most this often by one operation in the model.
Horizon == maxRetries + 2

\* generateSEOMetadata past its cache check, against a scripted provider.
SeoRun(drug, script) ==
  callOpenAIWithRetry([k \in 1..Horizon |-> SeoClosure(drug, AnswerAt(script, k))], 1)
\* generateDrugSummary past its cache check.
SummaryRun(drug, script) ==
  callOpenAIWithRetry([k \in 1..Horizon |-> SummaryClosure(drug, AnswerAt(script, k))], 1)
\* enhanceAllSections past its checks.
BatchRun(drug, script) ==
  callOpenAIWithRetry([k \in 1..Horizon |-> BatchClosure(drug, AnswerAt(script, k))], 1)

\* enhanceAllSections: the fields with content && content.trim().
AvailableSections(drug) ==
  {k \in Range(SectionKeys) : FieldTruthy(drug, k) /\ Trim(drug.fields[k]) # <<>>}

\* What responses.create may answer for the requested keys: every key enhanced,
\* every key present with the first one empty, or text that is not JSON.
FirstKey(keys) == SectionKeys[CHOOSE i \in DOMAIN SectionKeys :
                     SectionKeys[i] \in keys /\ \A j \in 1..(i - 1) : SectionKeys[j] \notin keys]
SectionTexts(keys) ==
  { JsonDoc(JsonObject([k \in keys |-> "Plain words: " \o k])),
    JsonDoc(JsonObject([k \in keys |-> IF k = FirstKey(keys) THEN "" ELSE "Plain words: " \o k])),
    Prose(<<"I"," ","c","a","n","n","o","t">>) }

\* -------------------------------------------------------------- CacheService
SeoKey(drug) == "seo_metadata:" \o drug.setId
SummaryKey(drug) == "drug_summary:" \o drug.setId
SectionsKey(drug) == "enhanced_sections:" \o drug.setId
\* A key for the mapped sections that falls into the batch's namespace.
AllSectionsKeyOfBatch(drug) == "enhanced_sections:" \o drug.setId
AllSectionsKey(drug) == "enhanced_all_sections:" \o drug.setId
ContentKey(drug) == "enhanced_content:" \o drug.setId

\* CacheService.get finds a live entry.
CacheHas(c, key) == key \in DOMAIN c
\* CacheService.get(key) when the entry is live.
CacheGet(c, key) == c[key].value
\* CacheService.set(key, value, ttl)
CacheSet(c, key, value, ttl) == (key :> [value |-> value, ttl |-> ttl]) @@ c
\* The entry's time to live has passed.
CacheDrop(c, key) == [k \in DOMAIN c \ {key} |-> c[k]]

\* ---------------------------------------- OpenAIService: the three operations
\* What a Gateway operation does before any provider call: it answers at once
\* (disabled, cached, nothing to enhance) or goes on to the provider.
Answered(v, source) == [answered |-> TRUE, value |-> v, source |-> source]
GoesOn == [answered |-> FALSE, value |-> JsonNull, source |-> "provider"]

\* A generateSEOMetadata that leaves the cache to its caller.
SeoLookupWithoutCache(drug, c, enabled) ==
  IF ~enabled THEN Answered(getFallbackSEOMetadata(drug), "disabled") ELSE GoesOn

\* generateSEOMetadata up to its cache check (a cached value counts when truthy).
SeoLookup(drug, c, enabled) ==
  IF ~enabled THEN Answered(getFallbackSEOMetadata(drug), "disabled")
  ELSE IF CacheHas(c, SeoKey(drug)) /\ CacheGet(c, SeoKey(drug)).kind # "null"
       THEN Answered(CacheGet(c, SeoKey(drug)), "cache")
       ELSE GoesOn

\* generateDrugSummary up to its cache check.
SummaryLookup(drug, c, enabled) ==
  IF ~enabled THEN Answered(getFallbackSummary(drug), "disabled")
  ELSE IF CacheHas(c, SummaryKey(drug)) /\ CacheGet(c, SummaryKey(drug)) # ""
       THEN Answered(CacheGet(c, SummaryKey(drug)), "cache")
       ELSE GoesOn

EmptyObject == JsonObject([k \in {} |-> ""])

\* An enhanceAllSections that goes to the provider without a look at the client.
BatchLookupWithoutSwitch(drug, c, enabled) ==
  IF CacheHas(c, "enhanced_sections:" \o drug.setId)
     /\ CacheGet(c, "enhanced_sections:" \o drug.setId).kind # "null"
  THEN Answered(CacheGet(c, "enhanced_sections:" \o drug.setId), "cache")
  ELSE IF AvailableSections(drug) = {} THEN Answered(EmptyObject, "nothing")
  ELSE GoesOn

\* enhanceAllSections up to the provider call.
BatchLookup(drug, c, enabled) ==
  IF ~enabled THEN Answered(EmptyObject, "disabled")
  ELSE IF CacheHas(c, SectionsKey(drug)) /\ CacheGet(c, SectionsKey(drug)).kind # "null"
       THEN Answered(CacheGet(c, SectionsKey(drug)), "cache")
       ELSE IF AvailableSections(drug) = {} THEN Answered(EmptyObject, "nothing")
       ELSE GoesOn

\* The cache after a run of an operation whose closure stores under key.
AfterRun(c, key, run, ttl) ==
  IF ~run.threw /\ run.stored THEN CacheSet(c, key, run.value, ttl) ELSE c

\* -------------------------------------------------------------------- state
VARIABLES
  openai,            \* OpenAIService.openai is set (a credential was configured)
  cache,             \* CacheService: live entries, key -> [value, ttl]
  now,               \* the clock read by new Date(); it ticks when a call arrives
  expired,           \* number of entries expired so far
  pc,                \* where each request is suspended
  drugOf,            \* the drug argument of each request's getEnhancedContent
  seoMetadata,       \* getEnhancedContent's local seoMetadata
  enhancedSummary,   \* getEnhancedContent's local enhancedSummary
  enhancedData,      \* enhanceAllSectionsAtOnce's local enhancedData
  enhancedSections,  \* getEnhancedContent's local enhancedSections
  result,            \* what getEnhancedContent resolved to
  path,              \* history: how the request's getEnhancedContent ended
  invoked,           \* history: the Gateway operations the request has invoked
  failed,            \* history: the Gateway operations that threw to the request
  wrote,             \* history: the cache keys the request has set
  lastSet,           \* history: per drug, the request that set the live enhanced_content entry
  gateway,           \* history: the last direct call of a Gateway operation
  mcpRequest,        \* the JSON-RPC request each MCP call is serving
  mcpResponse,       \* the JSON-RPC response of each MCP call
  cacheUp,           \* the store behind CacheService can be reached
  probe,             \* the label buildDrugSections is called with, and what it returned
  searched,          \* the arguments searchDrugs is called with, and what it returned
  api,               \* the HTTP request DrugController is serving, and its response
  retrying,          \* attempt by attempt: the attempt and the waits of callOpenAIWithRetry
  calls              \* attempt by attempt: the provider calls the request has made

\* Locals of the requests.
locals == <<seoMetadata, enhancedSummary, enhancedData, enhancedSections>>
\* History of the requests.
history == <<path, invoked, failed, wrote, lastSet>>

\* The MCP adapter's calls.
adapter == <<mcpRequest, mcpResponse>>

\* The bookkeeping of the retries when they are followed attempt by attempt.
retries == <<retrying, calls>>

\* What no request changes: the credential switch, the state of the cache's
\* store, the label under test, the search under test, the HTTP call, and
\* the bookkeeping of retries that are taken in one step.
outside == <<openai, cacheUp, probe, searched, api, retries>>

vars == <<outside, cache, now, expired, pc, drugOf, locals, result, history, gateway, adapter>>

NoContent == [id |-> Undefined]
NoResult == [kind |-> "none", value |-> NoContent]
NoCall == [op |-> "none"]
\* An absent member, request or response.
Nothing == [absent |-> TRUE]

Drug(p) == Drugs[drugOf[p]]

NoProbe == [label |-> Nothing, sections |-> <<>>]
NoSearch == [args |-> Nothing, page |-> Nothing]
NoApi == [route |-> "none"]
NoRetry == [attempt |-> 0, waits |-> 0]

\* What CacheService.get answers from: the store, or nothing while the store
\* cannot be reached (a failing get is a miss).
Reads == IF cacheUp THEN cache ELSE [k \in {} |-> [value |-> NoContent, ttl |-> 0]]
\* What a CacheService.set leaves in the store: the entry, or the store as it
\* was while it cannot be reached (a failing set is dropped).
Kept(c) == IF cacheUp THEN c ELSE cache

Init ==
  /\ openai \in BOOLEAN
  /\ cache = [k \in {} |-> [value |-> NoContent, ttl |-> 0]]
  /\ now = 0
  /\ expired = 0
  /\ pc = [p \in Procs |-> "idle"]
  /\ drugOf = [p \in Procs |-> 1]
  /\ seoMetadata = [p \in Procs |-> JsonNull]
  /\ enhancedSummary = [p \in Procs |-> ""]
  /\ enhancedData = [p \in Procs |-> JsonNull]
  /\ enhancedSections = [p \in Procs |-> <<>>]
  /\ result = [p \in Procs |-> NoResult]
  /\ path = [p \in Procs |-> "none"]
  /\ invoked = [p \in Procs |-> {}]
  /\ failed = [p \in Procs |-> {}]
  /\ wrote = [p \in Procs |-> {}]
  /\ lastSet = [d \in DrugIds |-> 0]
  /\ gateway = NoCall
  /\ mcpRequest = [p \in Procs |-> Nothing]
  /\ mcpResponse = [p \in Procs |-> Nothing]
  /\ cacheUp = TRUE
  /\ probe = NoProbe
  /\ searched = NoSearch
  /\ api = NoApi
  /\ retrying = [p \in Procs |-> NoRetry]
  /\ calls = [p \in Procs |-> 0]

\* ------------------------------------------------- DrugService.getEnhancedContent
\* The object assembled in the try block of getEnhancedContent.
AssembledContent(drug, seo, summary, sections, time) ==
  [ id |-> drug.setId,
    drugName |-> Str(drug.drugName),
    genericName |-> Str(drug.genericName),
    slug |-> createSlug(drug.drugName),
    seoTitle |-> Prop(seo, "title"),
    metaDescription |-> Prop(seo, "description"),
    enhancedSummary |-> summary,
    sections |-> sections,
    lastUpdated |-> time ]

\* A catch block object whose text fields come from nowhere.
FallbackWithoutTemplates(drug, time) ==
  AssembledContent(drug, EmptyObject, "", buildDrugSections(drug), time)

\* The catch block of getEnhancedContent: template content, nothing cached.
FallbackContent(drug, time) ==
  [ id |-> drug.setId,
    drugName |-> Str(drug.drugName),
    genericName |-> Str(drug.genericName),
    slug |-> createSlug(drug.drugName),
    seoTitle |-> Str(drug.drugName) \o " (" \o Str(drug.genericName) \o ") - Drug Information",
    metaDescription |-> "Complete prescribing information for " \o Str(drug.drugName)
                        \o " (" \o Str(drug.genericName)
                        \o "). Indications, dosage, warnings, and more.",
    enhancedSummary |-> Str(drug.drugName) \o " is a prescription medication containing "
                        \o Str(drug.genericName) \o ".",
    sections |-> buildDrugSections(drug),
    lastUpdated |-> time ]

\* A catch block that stores what it returns.
CatchAndCache(p) ==
  /\ cache' = Kept(CacheSet(cache, "enhanced_content:" \o Drugs[drugOf[p]].setId,
                            FallbackContent(Drugs[drugOf[p]], now), ContentTtl))
  /\ wrote' = [wrote EXCEPT ![p] = @ \cup {"enhanced_content:" \o Drugs[drugOf[p]].setId}]
  /\ result' = [result EXCEPT ![p] =
                  [kind |-> "value", value |-> FallbackContent(Drugs[drugOf[p]], now)]]
  /\ path' = [path EXCEPT ![p] = "fallback"]
  /\ pc' = [pc EXCEPT ![p] = "done"]

\* An error reaches the catch block of getEnhancedContent.
CatchInGetEnhancedContent(p) ==
  /\ UNCHANGED <<cache, wrote>>
  /\ result' = [result EXCEPT ![p] = [kind |-> "value", value |-> FallbackContent(Drug(p), now)]]
  /\ path' = [path EXCEPT ![p] = "fallback"]
  /\ pc' = [pc EXCEPT ![p] = "done"]

\* getEnhancedContent(drug) is called for a drug of the catalog.
GetEnhancedContentCall(p, d) ==
  /\ pc[p] = "idle"
  /\ now < MaxRequests
  /\ now' = now + 1
  /\ drugOf' = [drugOf EXCEPT ![p] = d]
  /\ pc' = [pc EXCEPT ![p] = "gec_cacheGet"]
  /\ UNCHANGED <<adapter, outside, cache, expired, locals, result, history, gateway>>

\* A getEnhancedContent that does not look at what the cache returned.
GecCacheCheckSkipped(p) ==
  /\ pc[p] = "gec_cacheGet"
  /\ pc' = [pc EXCEPT ![p] = "seo_start"]
  /\ UNCHANGED <<adapter, outside, cache, now, expired, drugOf, locals, result, history, gateway>>

\* A getEnhancedContent whose first cache read rejects while the store cannot
\* be reached: the read is outside the try block, so the request rejects.
GecCacheCheckRejecting(p) ==
  /\ pc[p] = "gec_cacheGet"
  /\ IF ~cacheUp
     THEN /\ result' = [result EXCEPT ![p] = [kind |-> "rejected", value |-> NoContent]]
          /\ path' = [path EXCEPT ![p] = "rejected"]
          /\ pc' = [pc EXCEPT ![p] = "done"]
     ELSE IF CacheHas(Reads, "enhanced_content:" \o Drugs[drugOf[p]].setId)
     THEN /\ result' = [result EXCEPT ![p] =
                          [kind |-> "value",
                           value |-> CacheGet(Reads, "enhanced_content:" \o Drugs[drugOf[p]].setId)]]
          /\ path' = [path EXCEPT ![p] = "hit"]
          /\ pc' = [pc EXCEPT ![p] = "done"]
     ELSE /\ pc' = [pc EXCEPT ![p] = "seo_start"]
          /\ UNCHANGED <<result, path>>
  /\ UNCHANGED <<adapter, outside, cache, now, expired, drugOf, locals, invoked, failed, wrote,
                 lastSet, gateway>>

\* const cached = await this.cacheService.get(cacheKey); if (cached) return cached;
GecCacheCheck(p) ==
  /\ pc[p] = "gec_cacheGet"
  /\ IF CacheHas(Reads, ContentKey(Drug(p)))
     THEN /\ result' = [result EXCEPT ![p] =
                          [kind |-> "value", value |-> CacheGet(Reads, ContentKey(Drug(p)))]]
          /\ path' = [path EXCEPT ![p] = "hit"]
          /\ pc' = [pc EXCEPT ![p] = "done"]
     ELSE /\ pc' = [pc EXCEPT ![p] = "seo_start"]
          /\ UNCHANGED <<result, path>>
  /\ UNCHANGED <<adapter, outside, cache, now, expired, drugOf, locals, invoked, failed, wrote,
                 lastSet, gateway>>

\* await this.openAIService.generateSEOMetadata(drug), up to its cache check.
SeoStart(p) ==
  /\ pc[p] = "seo_start"
  /\ LET found == SeoLookup(Drug(p), Reads, openai) IN
     IF found.answered
     THEN /\ seoMetadata' = [seoMetadata EXCEPT ![p] = found.value]
          /\ pc' = [pc EXCEPT ![p] = "summary_start"]
     ELSE /\ pc' = [pc EXCEPT ![p] = "seo_call"]
          /\ UNCHANGED seoMetadata
  /\ invoked' = [invoked EXCEPT ![p] = @ \cup {"seo"}]
  /\ UNCHANGED <<adapter, outside, cache, now, expired, drugOf, enhancedSummary, enhancedData,
                 enhancedSections, result, path, failed, wrote, lastSet, gateway>>

\* generateSEOMetadata's provider calls under callOpenAIWithRetry. The attempts
\* and the waits between them touch nothing but the provider, so they are one
\* step; the cache write of the successful attempt is in it.
SeoCall(p, script) ==
  /\ pc[p] = "seo_call"
  /\ LET run == SeoRun(Drug(p), script) IN
     IF run.threw
     THEN /\ CatchInGetEnhancedContent(p)
          /\ failed' = [failed EXCEPT ![p] = @ \cup {"seo"}]
          /\ UNCHANGED seoMetadata
     ELSE /\ cache' = Kept(AfterRun(cache, SeoKey(Drug(p)), run, SeoTtl))
          /\ wrote' = [wrote EXCEPT ![p] = IF run.stored THEN @ \cup {SeoKey(Drug(p))} ELSE @]
          /\ seoMetadata' = [seoMetadata EXCEPT ![p] = run.value]
          /\ pc' = [pc EXCEPT ![p] = "summary_start"]
          /\ UNCHANGED <<result, path, failed>>
  /\ UNCHANGED <<adapter, outside, now, expired, drugOf, enhancedSummary, enhancedData,
                 enhancedSections, invoked, lastSet, gateway>>

\* await this.openAIService.generateDrugSummary(drug), up to its cache check.
SummaryStart(p) ==
  /\ pc[p] = "summary_start"
  /\ LET found == SummaryLookup(Drug(p), Reads, openai) IN
     IF found.answered
     THEN /\ enhancedSummary' = [enhancedSummary EXCEPT ![p] = found.value]
          /\ pc' = [pc EXCEPT ![p] = "sections_start"]
     ELSE /\ pc' = [pc EXCEPT ![p] = "summary_call"]
          /\ UNCHANGED enhancedSummary
  /\ invoked' = [invoked EXCEPT ![p] = @ \cup {"summary"}]
  /\ UNCHANGED <<adapter, outside, cache, now, expired, drugOf, seoMetadata, enhancedData,
                 enhancedSections, result, path, failed, wrote, lastSet, gateway>>

\* generateDrugSummary's provider calls under callOpenAIWithRetry.
SummaryCall(p, script) ==
  /\ pc[p] = "summary_call"
  /\ LET run == SummaryRun(Drug(p), script) IN
     IF run.threw
     THEN /\ CatchInGetEnhancedContent(p)
          /\ failed' = [failed EXCEPT ![p] = @ \cup {"summary"}]
          /\ UNCHANGED enhancedSummary
     ELSE /\ cache' = Kept(AfterRun(cache, SummaryKey(Drug(p)), run, SummaryTtl))
          /\ wrote' = [wrote EXCEPT ![p] = IF run.stored THEN @ \cup {SummaryKey(Drug(p))} ELSE @]
          /\ enhancedSummary' = [enhancedSummary EXCEPT ![p] = run.value]
          /\ pc' = [pc EXCEPT ![p] = "sections_start"]
          /\ UNCHANGED <<result, path, failed>>
  /\ UNCHANGED <<adapter, outside, now, expired, drugOf, seoMetadata, enhancedData,
                 enhancedSections, invoked, lastSet, gateway>>

\* ------------------------------------ DrugService.enhanceAllSectionsAtOnce
\* A map that shows the original text where the batch has none.
EnhanceSectionOrOriginal(section, data) ==
  LET sectionKey == getSectionKeyFromTitle(section.title)
      enhancedContent == Prop(data, sectionKey) IN
  [ id |-> section.id, title |-> section.title, content |-> section.content,
    order |-> section.order,
    enhancedContent |-> IF enhancedContent \notin {"", Undefined} THEN enhancedContent
                        ELSE section.content ]

\* sections.map(...): enhancedContent is the batch's text for the section's key,
\* or undefined when the key is missing or its text is empty.
EnhanceSection(section, data) ==
  LET sectionKey == getSectionKeyFromTitle(section.title)
      enhancedContent == Prop(data, sectionKey) IN
  [ id |-> section.id, title |-> section.title, content |-> section.content,
    order |-> section.order,
    enhancedContent |-> IF enhancedContent # "" THEN enhancedContent ELSE Undefined ]

MapSections(sections, data) == [i \in DOMAIN sections |-> EnhanceSection(sections[i], data)]

\* const sections = this.buildDrugSections(drug); then the cache check of
\* enhanceAllSectionsAtOnce.
SectionsStart(p) ==
  /\ pc[p] = "sections_start"
  /\ IF CacheHas(Reads, AllSectionsKey(Drug(p)))
     THEN /\ enhancedSections' = [enhancedSections EXCEPT ![p] =
                                    CacheGet(Reads, AllSectionsKey(Drug(p)))]
          /\ pc' = [pc EXCEPT ![p] = "gec_persist"]
     ELSE /\ pc' = [pc EXCEPT ![p] = "batch_start"]
          /\ UNCHANGED enhancedSections
  /\ UNCHANGED <<adapter, outside, cache, now, expired, drugOf, seoMetadata, enhancedSummary,
                 enhancedData, result, history, gateway>>

\* await this.openAIService.enhanceAllSections(drug), up to the provider call.
BatchStart(p) ==
  /\ pc[p] = "batch_start"
  /\ LET found == BatchLookup(Drug(p), Reads, openai) IN
     IF found.answered
     THEN /\ enhancedData' = [enhancedData EXCEPT ![p] = found.value]
          /\ pc' = [pc EXCEPT ![p] = "sections_map"]
     ELSE /\ pc' = [pc EXCEPT ![p] = "batch_call"]
          /\ UNCHANGED enhancedData
  /\ invoked' = [invoked EXCEPT ![p] = @ \cup {"sections"}]
  /\ UNCHANGED <<adapter, outside, cache, now, expired, drugOf, seoMetadata, enhancedSummary,
                 enhancedSections, result, path, failed, wrote, lastSet, gateway>>

\* enhanceAllSections' provider calls under callOpenAIWithRetry; when the last
\* attempt throws, the catch block of enhanceAllSectionsAtOnce returns the plain
\* sections.
BatchCall(p, script) ==
  /\ pc[p] = "batch_call"
  /\ LET run == BatchRun(Drug(p), script) IN
     IF run.threw
     THEN /\ enhancedSections' = [enhancedSections EXCEPT ![p] = buildDrugSections(Drug(p))]
          /\ failed' = [failed EXCEPT ![p] = @ \cup {"sections"}]
          /\ pc' = [pc EXCEPT ![p] = "gec_persist"]
          /\ UNCHANGED <<cache, enhancedData, wrote>>
     ELSE /\ cache' = Kept(AfterRun(cache, SectionsKey(Drug(p)), run, SectionsTtl))
          /\ wrote' = [wrote EXCEPT ![p] = IF run.stored THEN @ \cup {SectionsKey(Drug(p))} ELSE @]
          /\ enhancedData' = [enhancedData EXCEPT ![p] = run.value]
          /\ pc' = [pc EXCEPT ![p] = "sections_map"]
          /\ UNCHANGED <<enhancedSections, failed>>
  /\ UNCHANGED <<adapter, outside, now, expired, drugOf, seoMetadata, enhancedSummary,
                 result, path, invoked, lastSet, gateway>>

\* The rest of enhanceAllSectionsAtOnce's try block: map, cache, return.
SectionsMap(p) ==
  /\ pc[p] = "sections_map"
  /\ LET mapped == MapSections(buildDrugSections(Drug(p)), enhancedData[p]) IN
     /\ cache' = Kept(CacheSet(cache, AllSectionsKey(Drug(p)), mapped, AllSectionsTtl))
     /\ wrote' = [wrote EXCEPT ![p] = @ \cup {AllSectionsKey(Drug(p))}]
     /\ enhancedSections' = [enhancedSections EXCEPT ![p] = mapped]
  /\ pc' = [pc EXCEPT ![p] = "gec_persist"]
  /\ UNCHANGED <<adapter, outside, now, expired, drugOf, seoMetadata, enhancedSummary,
                 enhancedData, result, path, invoked, failed, lastSet, gateway>>

\* A getEnhancedContent that keeps an entry another request has written.
GecPersistFirstWins(p) ==
  /\ pc[p] = "gec_persist"
  /\ seoMetadata[p].kind # "null"
  /\ LET key == "enhanced_content:" \o Drugs[drugOf[p]].setId
         enhancedContent == AssembledContent(Drugs[drugOf[p]], seoMetadata[p],
                                             enhancedSummary[p], enhancedSections[p], now) IN
     /\ cache' = IF CacheHas(Reads, key) THEN cache
                 ELSE Kept(CacheSet(cache, key, enhancedContent, ContentTtl))
     /\ wrote' = [wrote EXCEPT ![p] = @ \cup {key}]
     /\ lastSet' = IF cacheUp THEN [lastSet EXCEPT ![drugOf[p]] = p] ELSE lastSet
     /\ result' = [result EXCEPT ![p] = [kind |-> "value", value |-> enhancedContent]]
     /\ path' = [path EXCEPT ![p] = "generated"]
     /\ pc' = [pc EXCEPT ![p] = "done"]
  /\ UNCHANGED <<adapter, outside, now, expired, drugOf, locals, invoked, failed, gateway>>

\* ------------------------------ getEnhancedContent: assemble, persist, return
\* Reading seoMetadata.title of null is a TypeError, which the catch block turns
\* into the fallback.
GecPersist(p) ==
  /\ pc[p] = "gec_persist"
  /\ IF seoMetadata[p].kind = "null"
     THEN /\ CatchInGetEnhancedContent(p)
          /\ UNCHANGED lastSet
     ELSE LET enhancedContent == AssembledContent(Drug(p), seoMetadata[p], enhancedSummary[p],
                                                  enhancedSections[p], now) IN
          /\ cache' = Kept(CacheSet(cache, ContentKey(Drug(p)), enhancedContent, ContentTtl))
          /\ wrote' = [wrote EXCEPT ![p] = @ \cup {ContentKey(Drug(p))}]
          /\ lastSet' = IF cacheUp THEN [lastSet EXCEPT ![drugOf[p]] = p] ELSE lastSet
          /\ result' = [result EXCEPT ![p] = [kind |-> "value", value |-> enhancedContent]]
          /\ path' = [path EXCEPT ![p] = "generated"]
          /\ pc' = [pc EXCEPT ![p] = "done"]
  /\ UNCHANGED <<adapter, outside, now, expired, drugOf, locals, invoked, failed, gateway>>

\* The caller has received the result; the request's frame is gone.
Return(p) ==
  /\ pc[p] = "done"
  /\ pc' = [pc EXCEPT ![p] = "idle"]
  /\ seoMetadata' = [seoMetadata EXCEPT ![p] = JsonNull]
  /\ enhancedSummary' = [enhancedSummary EXCEPT ![p] = ""]
  /\ enhancedData' = [enhancedData EXCEPT ![p] = JsonNull]
  /\ enhancedSections' = [enhancedSections EXCEPT ![p] = <<>>]
  /\ result' = [result EXCEPT ![p] = NoResult]
  /\ path' = [path EXCEPT ![p] = "none"]
  /\ invoked' = [invoked EXCEPT ![p] = {}]
  /\ failed' = [failed EXCEPT ![p] = {}]
  /\ wrote' = [wrote EXCEPT ![p] = {}]
  /\ drugOf' = [drugOf EXCEPT ![p] = 1]
  /\ retrying' = [retrying EXCEPT ![p] = NoRetry]
  /\ calls' = [calls EXCEPT ![p] = 0]
  /\ UNCHANGED <<adapter, openai, cacheUp, probe, searched, api, cache, now, expired, lastSet,
                 gateway>>

\* ---------------------------------------------------------------- TTL expiry
AllKeys == UNION {{SeoKey(Drugs[d]), SummaryKey(Drugs[d]), SectionsKey(Drugs[d]),
                   AllSectionsKey(Drugs[d]), ContentKey(Drugs[d])} : d \in DrugIds}

\* An entry's time to live runs out. The TTLs (1 h, 24 h) are long against a
\* request, and a request reads each key once before it writes it, so an expiry
\* during a request acts like one just before or just after it. An expiry
\* after the last call is seen by nobody.
Expire(key) ==
  /\ expired < MaxExpiries
  /\ now < MaxRequests
  /\ \A p \in Procs : pc[p] = "idle"
  /\ gateway = NoCall
  /\ CacheHas(cache, key)
  /\ cache' = CacheDrop(cache, key)
  /\ expired' = expired + 1
  /\ lastSet' = [d \in DrugIds |-> IF key = ContentKey(Drugs[d]) THEN 0 ELSE lastSet[d]]
  /\ UNCHANGED <<adapter, outside, now, pc, drugOf, locals, result, path, invoked, failed, wrote, gateway>>

\* ------------------------------------------------------------ specifications
\* Sequences over S of length at most n.
RECURSIVE SeqsUpTo(_, _)
SeqsUpTo(S, n) ==
  IF n = 0 THEN {<<>>}
  ELSE LET shorter == SeqsUpTo(S, n - 1) IN
       shorter \cup {Append(q, x) : q \in shorter, x \in S}

\* The scripted rejections are as many as the retry limit: what the provider
\* does after them is its final answer, call after call.
Scripts(fails, finals) ==
  {[fails |-> f, final |-> a] : f \in SeqsUpTo(fails, maxRetries), a \in finals}

\* The provider seen by a request: it fails some calls, then answers.
SeoScripts == Scripts({Rejected(E429)}, {Rejected(E500)} \cup {Completed(t) : t \in SeoTexts})
SummaryScripts == Scripts({Rejected(E429)}, {Rejected(E500)} \cup {Completed(t) : t \in SummaryTexts})
BatchScripts ==
  [d \in DrugIds |->
     Scripts({Rejected(E429)},
             {Rejected(E500)} \cup {Completed(t) : t \in SectionTexts(AvailableSections(Drugs[d]))})]

\* ----------------------------------------- direct calls of the Gateway operations
\* The record of a call that was answered without the provider.
NoRun(v) == [threw |-> FALSE, error |-> NoError, value |-> v, stored |-> FALSE,
             calls |-> 0, errors |-> <<>>, delays |-> <<>>]

Called(op, d, script, source, run, before) ==
  [op |-> op, drug |-> d, script |-> script, source |-> source, run |-> run, before |-> before]

\* openAIService.generateSEOMetadata(drug), start to end.
GenerateSEOMetadata(d, script) ==
  /\ gateway = NoCall
  /\ now < MaxRequests
  /\ now' = now + 1
  /\ LET found == SeoLookup(Drugs[d], Reads, openai)
         run == IF found.answered THEN NoRun(found.value) ELSE SeoRun(Drugs[d], script) IN
     /\ cache' = IF found.answered THEN cache ELSE Kept(AfterRun(cache, SeoKey(Drugs[d]), run, SeoTtl))
     /\ gateway' = Called("seo", d, script, found.source, run, cache)
  /\ UNCHANGED <<adapter, outside, expired, pc, drugOf, locals, result, history>>

\* openAIService.generateDrugSummary(drug), start to end.
GenerateDrugSummary(d, script) ==
  /\ gateway = NoCall
  /\ now < MaxRequests
  /\ now' = now + 1
  /\ LET found == SummaryLookup(Drugs[d], Reads, openai)
         run == IF found.answered THEN NoRun(found.value) ELSE SummaryRun(Drugs[d], script) IN
     /\ cache' = IF found.answered THEN cache
                 ELSE Kept(AfterRun(cache, SummaryKey(Drugs[d]), run, SummaryTtl))
     /\ gateway' = Called("summary", d, script, found.source, run, cache)
  /\ UNCHANGED <<adapter, outside, expired, pc, drugOf, locals, result, history>>

\* openAIService.enhanceAllSections(drug), start to end.
EnhanceAllSections(d, script) ==
  /\ gateway = NoCall
  /\ now < MaxRequests
  /\ now' = now + 1
  /\ LET found == BatchLookup(Drugs[d], Reads, openai)
         run == IF found.answered THEN NoRun(found.value) ELSE BatchRun(Drugs[d], script) IN
     /\ cache' = IF found.answered THEN cache
                 ELSE Kept(AfterRun(cache, SectionsKey(Drugs[d]), run, SectionsTtl))
     /\ gateway' = Called("sections", d, script, found.source, run, cache)
  /\ UNCHANGED <<adapter, outside, expired, pc, drugOf, locals, result, history>>

\* The caller has the operation's value or error.
GatewayReturn ==
  /\ gateway # NoCall
  /\ gateway' = NoCall
  /\ UNCHANGED <<adapter, outside, cache, now, expired, pc, drugOf, locals, result, history>>

\* The provider seen by a direct call: any run of rejections, then any answer.
Rejections == {Rejected(E429), Rejected(ERateCode), Rejected(E500)}
SeoAnswers == Rejections \cup {Completed(t) : t \in SeoTexts}
SummaryAnswers == Rejections \cup {Completed(t) : t \in SummaryTexts}
BatchAnswers(drug) == Rejections \cup {Completed(t) : t \in SectionTexts(AvailableSections(drug))}

SeoProviders == Scripts(Rejections, SeoAnswers)
SummaryProviders == Scripts(Rejections, SummaryAnswers)
BatchProviders == [d \in DrugIds |-> Scripts(Rejections, BatchAnswers(Drugs[d]))]

NextGateway ==
  \/ \E d \in DrugIds, a \in SeoProviders : GenerateSEOMetadata(d, a)
  \/ \E d \in DrugIds, a \in SummaryProviders : GenerateDrugSummary(d, a)
  \/ \E d \in DrugIds : \E a \in BatchProviders[d] : EnhanceAllSections(d, a)
  \/ GatewayReturn
  \/ \E k \in AllKeys : Expire(k)

SpecGateway == Init /\ [][NextGateway]_vars

\* The entries set with the one-hour TTL; the others live for a day.
HourKeys == UNION {{AllSectionsKey(Drugs[d]), ContentKey(Drugs[d])} : d \in DrugIds}

\* Requests served one at a time, over less than a day: only the one-hour
\* entries run out.
Next ==
  \/ \E d \in DrugIds : GetEnhancedContentCall(1, d)
  \/ GecCacheCheck(1)
  \/ SeoStart(1)
  \/ \E a \in SeoScripts : SeoCall(1, a)
  \/ SummaryStart(1)
  \/ \E a \in SummaryScripts : SummaryCall(1, a)
  \/ SectionsStart(1)
  \/ BatchStart(1)
  \/ \E a \in BatchScripts[drugOf[1]] : BatchCall(1, a)
  \/ SectionsMap(1)
  \/ GecPersist(1)
  \/ Return(1)
  \/ \E k \in HourKeys : Expire(k)

Spec == Init /\ [][Next]_vars

\* Two requests in flight at once. The provider answers at once or keeps failing.
RaceScripts(finals) == {[fails |-> <<>>, final |-> a] : a \in finals}
SeoRaceScripts ==
  RaceScripts({Rejected(E500),
               Completed(JsonDoc(JsonObject([title |-> "Aspirin 81mg",
                                             description |-> "Uses and dosing"])))})
SummaryRaceScripts == RaceScripts({Rejected(E500)} \cup {Completed(t) : t \in SummaryTexts})
BatchRaceScripts ==
  [d \in DrugIds |->
     RaceScripts({Rejected(E500),
                  Completed(JsonDoc(JsonObject([k \in AvailableSections(Drugs[d]) |->
                                                  "Plain words: " \o k])))})]

NextRace ==
  \E p \in Procs :
    \/ \E d \in DrugIds : GetEnhancedContentCall(p, d)
    \/ GecCacheCheck(p)
    \/ SeoStart(p)
    \/ \E a \in SeoRaceScripts : SeoCall(p, a)
    \/ SummaryStart(p)
    \/ \E a \in SummaryRaceScripts : SummaryCall(p, a)
    \/ SectionsStart(p)
    \/ BatchStart(p)
    \/ \E a \in BatchRaceScripts[drugOf[p]] : BatchCall(p, a)
    \/ SectionsMap(p)
    \/ GecPersist(p)
    \/ Return(p)

SpecRace == Init /\ [][NextRace]_vars

\* ------------------------------------------------- DrugService.getDrugByNames
\* An optional string argument.
Given(chars) == [given |-> TRUE, chars |-> chars]
NotGiven == [given |-> FALSE, chars |-> <<>>]
\* JavaScript truthiness of an optional string.
Truthy(arg) == arg.given /\ arg.chars # <<>>

\* The first index of Drugs that satisfies Match, or 0 for null.
Find(Match(_)) ==
  IF \E i \in DrugIds : Match(i)
  THEN CHOOSE i \in DrugIds : Match(i) /\ \A j \in 1..(i - 1) : ~Match(j)
  ELSE 0

\* DrugService.getDrugByNames(drugName, genericName), drugName a string.
getDrugByNames(drugName, genericName) ==
  LET normalizedDrugName == HyphensToSpaces(ToLowerCase(drugName))
      Both(i) == /\ HyphensToSpaces(ToLowerCase(Drugs[i].drugName)) = normalizedDrugName
                 /\ ToLowerCase(Drugs[i].genericName) = ToLowerCase(genericName.chars)
      Either(i) == \/ HyphensToSpaces(ToLowerCase(Drugs[i].drugName)) = normalizedDrugName
                   \/ HyphensToSpaces(ToLowerCase(Drugs[i].genericName)) = normalizedDrugName
  IN IF Truthy(genericName) THEN Find(Both) ELSE Find(Either)

\* ------------------------------------------------------------------ McpService
\* The id member of a request: absent, null, a number or a string.
IdAbsent == [kind |-> "absent", n |-> 0, s |-> ""]
IdNull == [kind |-> "null", n |-> 0, s |-> ""]
IdNumber(n) == [kind |-> "number", n |-> n, s |-> ""]
IdString(str) == [kind |-> "string", n |-> 0, s |-> str]
\* request.id ?? null
IdOrNullish(id) == IF id.kind \in {"absent", "null"} THEN IdNull ELSE id
\* request.id || null
IdOrFalsy(id) ==
  IF id.kind \in {"absent", "null"} \/ id = IdNumber(0) \/ id = IdString("") THEN IdNull ELSE id

\* A response with a result member, and one with an error member.
ResultResponse(id, r) == [jsonrpc |-> "2.0", id |-> id, result |-> r]
ErrorResponse(id, e) == [jsonrpc |-> "2.0", id |-> id, error |-> e]

\* A tool result with one text item; isError FALSE stands for no isError member.
PlainText(str) == [format |-> "plain", string |-> str]
ToolResult(text, isError) ==
  [content |-> <<[type |-> "text", text |-> text]>>, isError |-> isError]

\* JSON.stringify(value, null, 2) of an object: members whose value is
\* undefined are left out.
JSONStringify(value, optional) ==
  [format |-> "json",
   members |-> {k \in DOMAIN value : k \notin optional \/ value[k] # Undefined},
   value |-> value]

\* What a method does up to its first wait for getEnhancedContent: it returns,
\* throws, or waits for the content of a drug.
Returns(v) == [kind |-> "return", value |-> v, message |-> "", drug |-> 0]
Raises(message) == [kind |-> "throw", value |-> Nothing, message |-> message, drug |-> 0]
Awaits(d) == [kind |-> "await", value |-> Nothing, message |-> "", drug |-> d]

\* A not-found text that never shows the generic name.
NotFoundByNameOnly(args) ==
  ToolResult(PlainText("Drug not found: " \o Str(args.drugName.chars)), TRUE)

\* The result of getDrugByName and getEnhancedSections when no drug matches.
NotFound(args) ==
  LET searchTerm == IF Truthy(args.genericName)
                    THEN Str(args.drugName.chars) \o " (" \o Str(args.genericName.chars) \o ")"
                    ELSE Str(args.drugName.chars) IN
  ToolResult(PlainText("Drug not found: " \o searchTerm), TRUE)

\* McpService.getDrugByName and getEnhancedSections up to the call of
\* getEnhancedContent: destructure the arguments, look the drug up.
LookUp(args) ==
  IF ~args.present
  THEN Raises("Cannot destructure property 'drugName' of 'args' as it is undefined.")
  ELSE IF ~args.drugName.given
  THEN Raises("Cannot read properties of undefined (reading 'toLowerCase')")
  ELSE LET drug == getDrugByNames(args.drugName.chars, args.genericName) IN
       IF drug = 0 THEN Returns(NotFound(args)) ELSE Awaits(drug)

\* McpService.getDrugByName after getEnhancedContent.
getDrugByName(enhancedContent) ==
  ToolResult(JSONStringify(enhancedContent, {"seoTitle", "metaDescription"}), FALSE)

\* A filter that keeps every section with an enhancedContent member.
HasEnhancedContentMember(section) == "enhancedContent" \in DOMAIN section

\* section => section.enhancedContent, as a condition.
HasEnhancedContent(section) ==
  /\ "enhancedContent" \in DOMAIN section
  /\ section.enhancedContent # Undefined
  /\ section.enhancedContent # ""

\* McpService.getEnhancedSections after getEnhancedContent.
getEnhancedSections(enhancedContent) ==
  LET filtered == SelectSeq(enhancedContent.sections, HasEnhancedContent) IN
  ToolResult(
    JSONStringify(
      [ drugName |-> enhancedContent.drugName,
        genericName |-> enhancedContent.genericName,
        enhancedSections |->
          [i \in DOMAIN filtered |->
             [ title |-> filtered[i].title,
               originalContent |-> filtered[i].content,
               enhancedContent |-> filtered[i].enhancedContent ]] ], {}),
    FALSE)

\* String.prototype.includes
Includes(hay, needle) ==
  \E i \in 1..(Len(hay) - Len(needle) + 1) : SubSeq(hay, i, i + Len(needle) - 1) = needle

\* An optional number argument.
GivenNumber(n) == [given |-> TRUE, n |-> n]
NotGivenNumber == [given |-> FALSE, n |-> 0]
\* searchDto.page || 1 and searchDto.limit || 20
NumberOr(arg, default) == IF arg.given /\ arg.n # 0 THEN arg.n ELSE default

\* A slice that takes the element at endIndex too.
SliceThrough(seq, startIndex, endIndex) ==
  SubSeq(seq, startIndex + 1, IF endIndex + 1 < Len(seq) THEN endIndex + 1 ELSE Len(seq))

\* Array.prototype.slice(startIndex, endIndex) with 0 <= startIndex <= endIndex.
Slice(seq, startIndex, endIndex) ==
  SubSeq(seq, startIndex + 1, IF endIndex < Len(seq) THEN endIndex ELSE Len(seq))

\* Math.ceil(a / b) for a >= 0 and b > 0.
Ceil(a, b) == (a + b - 1) \div b

\* DrugService.searchDrugs, its two filters: the indices of the records that
\* pass the query and the labeler, in the order of this.drugs.
filteredDrugs(args) ==
  LET query == ToLowerCase(args.query.chars)
      labeler == ToLowerCase(args.labeler.chars)
      Hit(i) == \/ ~Truthy(args.query)
                \/ Includes(ToLowerCase(Drugs[i].drugName), query)
                \/ Includes(ToLowerCase(Drugs[i].genericName), query)
                \/ Includes(ToLowerCase(Drugs[i].labeler), query)
                \/ /\ HasField(Drugs[i], "indicationsAndUsage")
                   /\ Includes(ToLowerCase(Drugs[i].fields["indicationsAndUsage"]), query)
      ByLabeler(i) == \/ ~Truthy(args.labeler)
                      \/ Includes(ToLowerCase(Drugs[i].labeler), labeler)
  IN SelectSeq(SelectSeq([i \in DrugIds |-> i], Hit), ByLabeler)

\* DrugService.searchDrugs
searchDrugs(args) ==
  LET filtered == filteredDrugs(args)
      page == NumberOr(args.page, 1)
      limit == NumberOr(args.limit, 20)
      startIndex == (page - 1) * limit
      endIndex == startIndex + limit
      paginatedDrugs == Slice(filtered, startIndex, endIndex)
  IN [ drugs |-> [i \in DOMAIN paginatedDrugs |->
                    [ drugName |-> Str(Drugs[paginatedDrugs[i]].drugName),
                      genericName |-> Str(Drugs[paginatedDrugs[i]].genericName),
                      labeler |-> Str(Drugs[paginatedDrugs[i]].labeler),
                      url |-> "/drugs/" \o createSlug(Drugs[paginatedDrugs[i]].drugName)
                              \o "-" \o createSlug(Drugs[paginatedDrugs[i]].genericName) ]],
       pagination |-> [ page |-> page, limit |-> limit, total |-> Len(filtered),
                        totalPages |-> Ceil(Len(filtered), limit),
                        hasNext |-> endIndex < Len(filtered),
                        hasPrev |-> page > 1 ] ]

\* A search tool that insists on a query.
SearchToolQueryRequired(args) ==
  IF ~args.present THEN Raises("Cannot read properties of undefined (reading 'query')")
  ELSE IF ~args.query.given THEN Raises("query is required")
  ELSE Returns(ToolResult(JSONStringify(searchDrugs(args), {}), FALSE))

\* McpService.searchDrugs
SearchTool(args) ==
  IF ~args.present THEN Raises("Cannot read properties of undefined (reading 'query')")
  ELSE Returns(ToolResult(JSONStringify(searchDrugs(args), {}), FALSE))

\* McpService.executeTool up to the call of getEnhancedContent.
executeTool(toolCall) ==
  IF ~toolCall.present THEN Raises("Cannot read properties of undefined (reading 'name')")
  ELSE IF toolCall.name = "get_drug_by_name" THEN LookUp(toolCall.arguments)
  ELSE IF toolCall.name = "search_drugs" THEN SearchTool(toolCall.arguments)
  ELSE IF toolCall.name = "get_enhanced_sections" THEN LookUp(toolCall.arguments)
  ELSE Raises("Unknown tool: " \o toolCall.name)

\* McpService.executeTool after getEnhancedContent.
executeToolReturn(toolCall, enhancedContent) ==
  IF toolCall.name = "get_drug_by_name" THEN getDrugByName(enhancedContent)
  ELSE getEnhancedSections(enhancedContent)

\* McpService.callTool up to the call of getEnhancedContent. The catch block
\* reads params.name for its log line before it builds the result.
callTool(id, params) ==
  LET done == executeTool(params) IN
  IF done.kind = "return" THEN Returns(ResultResponse(id, done.value))
  ELSE IF done.kind = "await" THEN done
  ELSE IF ~params.present THEN Raises("Cannot read properties of undefined (reading 'name')")
  ELSE Returns(ResultResponse(id,
         ToolResult(PlainText("Error executing tool: " \o done.message), TRUE)))

\* McpService.initialize
initialize(id) ==
  ResultResponse(id, [ protocolVersion |-> "2024-11-05",
                       capabilities |-> [tools |-> <<>>],
                       serverInfo |-> [name |-> "rxview-drug-server", version |-> "1.0.0"] ])

\* A catalog in the order of the tools' names.
listToolsByName(id) ==
  ResultResponse(id, [ tools |-> << [name |-> "get_drug_by_name", required |-> <<"drugName">>],
                                    [name |-> "get_enhanced_sections", required |-> <<"drugName">>],
                                    [name |-> "search_drugs", required |-> <<>>] >> ])

\* McpService.listTools: the catalog, each tool with its required arguments.
listTools(id) ==
  ResultResponse(id, [ tools |-> << [name |-> "get_drug_by_name", required |-> <<"drugName">>],
                                    [name |-> "search_drugs", required |-> <<>>],
                                    [name |-> "get_enhanced_sections", required |-> <<"drugName">>] >> ])

\* A default branch that reports an internal error.
InternalErrorForMethod(request) ==
  ErrorResponse(IdOrFalsy(request.id),
                [code |-> -32603, message |-> "Internal error", data |-> request.method])

\* The default branch of handleRequest.
MethodNotFound(request) ==
  ErrorResponse(IdOrFalsy(request.id),
                [code |-> -32601, message |-> "Method not found: " \o request.method,
                 data |-> Undefined])

\* McpService.handleRequest up to the call of getEnhancedContent.
handleRequest(request) ==
  IF request.method = "tools/list" THEN Returns(listTools(IdOrNullish(request.id)))
  ELSE IF request.method = "tools/call" THEN callTool(IdOrNullish(request.id), request.params)
  ELSE IF request.method = "initialize" THEN Returns(initialize(IdOrNullish(request.id)))
  ELSE Returns(MethodNotFound(request))

\* A controller without its try/catch.
handleMcpRequestUnguarded(request) == handleRequest(request)

\* McpController.handleMcpRequest up to the call of getEnhancedContent.
handleMcpRequest(request) ==
  LET done == handleRequest(request) IN
  IF done.kind = "throw"
  THEN Returns(ErrorResponse(IdOrFalsy(request.id),
                             [code |-> -32603, message |-> "Internal error",
                              data |-> done.message]))
  ELSE done

\* POST /mcp arrives: the request is served up to its response, or up to its
\* call of getEnhancedContent(drug).
McpReceive(p, request) ==
  /\ pc[p] = "idle"
  /\ now < MaxRequests
  /\ now' = now + 1
  /\ mcpRequest' = [mcpRequest EXCEPT ![p] = request]
  /\ LET done == handleMcpRequest(request) IN
     IF done.kind = "await"
     THEN /\ drugOf' = [drugOf EXCEPT ![p] = done.drug]
          /\ pc' = [pc EXCEPT ![p] = "gec_cacheGet"]
          /\ UNCHANGED mcpResponse
     ELSE /\ mcpResponse' = [mcpResponse EXCEPT ![p] = done.value]
          /\ pc' = [pc EXCEPT ![p] = "responded"]
          /\ UNCHANGED drugOf
  /\ UNCHANGED <<outside, cache, expired, locals, result, history, gateway>>

\* getEnhancedContent has resolved: the tool builds its result, callTool wraps it.
McpRespond(p) ==
  /\ pc[p] = "done"
  /\ mcpRequest[p] # Nothing
  /\ mcpResponse' = [mcpResponse EXCEPT ![p] =
       ResultResponse(IdOrNullish(mcpRequest[p].id),
                      executeToolReturn(mcpRequest[p].params, result[p].value))]
  /\ pc' = [pc EXCEPT ![p] = "responded"]
  /\ UNCHANGED <<outside, cache, now, expired, drugOf, locals, result, history, gateway,
                 mcpRequest>>

\* The response has been sent; the call's frames are gone.
McpSent(p) ==
  /\ pc[p] = "responded"
  /\ pc' = [pc EXCEPT ![p] = "idle"]
  /\ mcpRequest' = [mcpRequest EXCEPT ![p] = Nothing]
  /\ mcpResponse' = [mcpResponse EXCEPT ![p] = Nothing]
  /\ seoMetadata' = [seoMetadata EXCEPT ![p] = JsonNull]
  /\ enhancedSummary' = [enhancedSummary EXCEPT ![p] = ""]
  /\ enhancedData' = [enhancedData EXCEPT ![p] = JsonNull]
  /\ enhancedSections' = [enhancedSections EXCEPT ![p] = <<>>]
  /\ result' = [result EXCEPT ![p] = NoResult]
  /\ path' = [path EXCEPT ![p] = "none"]
  /\ invoked' = [invoked EXCEPT ![p] = {}]
  /\ failed' = [failed EXCEPT ![p] = {}]
  /\ wrote' = [wrote EXCEPT ![p] = {}]
  /\ drugOf' = [drugOf EXCEPT ![p] = 1]
  /\ UNCHANGED <<outside, cache, now, expired, lastSet, gateway>>

\* The requests a client sends.
Chars(str) ==
  CASE str = "aspirin" -> <<"a","s","p","i","r","i","n">>
    [] str = "Tylenol-PM" -> <<"T","y","l","e","n","o","l","-","P","M">>
    [] str = "acetaminophen" -> <<"a","c","e","t","a","m","i","n","o","p","h","e","n">>
    [] str = "Acetaminophen" -> <<"A","c","e","t","a","m","i","n","o","p","h","e","n">>
    [] str = "zzz" -> <<"z","z","z">>
    [] str = "a" -> <<"a">>
    [] str = "Pharma" -> <<"P","h","a","r","m","a">>
    [] str = "" -> <<>>

DrugNameArgs == {NotGiven} \cup {Given(Chars(n)) : n \in {"aspirin", "Tylenol-PM", "acetaminophen", "zzz"}}
GenericNameArgs == {NotGiven, Given(Chars("")), Given(Chars("Acetaminophen"))}
NoArguments == [present |-> FALSE, drugName |-> NotGiven, genericName |-> NotGiven,
                query |-> NotGiven, labeler |-> NotGiven,
                page |-> NotGivenNumber, limit |-> NotGivenNumber]
LookupArguments ==
  {NoArguments} \cup
  {[NoArguments EXCEPT !.present = TRUE, !.drugName = n, !.genericName = g] :
     n \in DrugNameArgs, g \in GenericNameArgs}
PageArgs == {NotGivenNumber, GivenNumber(0), GivenNumber(2)}
LimitArgs == {NotGivenNumber, GivenNumber(1)}
SearchArguments ==
  {NoArguments} \cup
  {[NoArguments EXCEPT !.present = TRUE, !.query = q, !.labeler = l, !.page = n, !.limit = m] :
     q \in {NotGiven, Given(Chars("a"))}, l \in {NotGiven, Given(Chars("Pharma"))},
     n \in PageArgs, m \in LimitArgs}
NoParams == [present |-> FALSE, name |-> Undefined, arguments |-> NoArguments]
ToolCalls ==
  {NoParams}
  \cup {[present |-> TRUE, name |-> t, arguments |-> a] :
          t \in {"get_drug_by_name", "get_enhanced_sections"}, a \in LookupArguments}
  \cup {[present |-> TRUE, name |-> "search_drugs", arguments |-> a] : a \in SearchArguments}
  \cup {[present |-> TRUE, name |-> t, arguments |-> NoArguments] :
          t \in {"delete_drug", "undefined"}}
Ids == {IdAbsent, IdNull, IdNumber(0), IdNumber(7), IdString(""), IdString("a")}
Requests ==
  {[method |-> "tools/call", id |-> i, params |-> c] : i \in Ids, c \in ToolCalls}
  \cup {[method |-> m, id |-> i, params |-> NoParams] :
          m \in {"initialize", "tools/list", "resources/list", "ping", ""}, i \in Ids}
  \cup {[method |-> m, id |-> i,
          params |-> [present |-> TRUE, name |-> "search_drugs", arguments |-> NoArguments]] :
          m \in {"initialize", "tools/list"}, i \in Ids}

\* MCP calls served one at a time, within the lifetime of the cache entries.
NextMcp ==
  \/ \E r \in Requests : McpReceive(1, r)
  \/ GecCacheCheck(1)
  \/ SeoStart(1)
  \/ \E a \in SeoRaceScripts : SeoCall(1, a)
  \/ SummaryStart(1)
  \/ \E a \in SummaryRaceScripts : SummaryCall(1, a)
  \/ SectionsStart(1)
  \/ BatchStart(1)
  \/ \E a \in BatchRaceScripts[drugOf[1]] : BatchCall(1, a)
  \/ SectionsMap(1)
  \/ GecPersist(1)
  \/ McpRespond(1)
  \/ McpSent(1)

SpecMcp == Init /\ [][NextMcp]_vars

\* ------------------------------------------------ buildDrugSections on its own
\* The labels buildDrugSections is called with: any of the twelve fields hold
\* text; the others are all absent, or all present and empty.
Labels ==
  {[Aspirin EXCEPT !.fields =
      [k \in (IF empties THEN Range(SectionKeys) ELSE populated) |->
         IF k \in populated THEN <<"x">> ELSE <<>>]] :
     populated \in SUBSET Range(SectionKeys), empties \in BOOLEAN}

\* const sections = this.buildDrugSections(drug)
BuildDrugSectionsCall(label) ==
  /\ probe = NoProbe
  /\ probe' = [label |-> label, sections |-> buildDrugSections(label)]
  /\ UNCHANGED <<retries, openai, cacheUp, searched, api, adapter, cache, now, expired, pc, drugOf,
                 locals, result, history, gateway>>

\* The caller has the sections.
BuildDrugSectionsReturn ==
  /\ probe # NoProbe
  /\ probe' = NoProbe
  /\ UNCHANGED <<retries, openai, cacheUp, searched, api, adapter, cache, now, expired, pc, drugOf,
                 locals, result, history, gateway>>

NextSections ==
  \/ \E label \in Labels : BuildDrugSectionsCall(label)
  \/ BuildDrugSectionsReturn

SpecSections == Init /\ [][NextSections]_vars

\* ------------------------------------------- the retries, attempt by attempt
\* The attempt parameter of the callOpenAIWithRetry frame that calls the
\* provider now, and the waits the invocation has slept so far.
AttemptNumber(p, retryPc) == IF pc[p] = retryPc THEN retrying[p].attempt + 1 ELSE 1
WaitsSoFar(p, retryPc) == IF pc[p] = retryPc THEN retrying[p].waits ELSE 0
\* await operation(): one provider call by the request in service.
ProviderCalled(p, retryPc) ==
  /\ retrying' = [retrying EXCEPT ![p] = [attempt |-> AttemptNumber(p, retryPc),
                                          waits |-> WaitsSoFar(p, retryPc)]]
  /\ calls' = [calls EXCEPT ![p] = @ + 1]

\* One attempt of generateSEOMetadata under callOpenAIWithRetry: the provider
\* answers, the closure returns or throws, the catch block rethrows or sleeps.
SeoAttempt(p, answer) ==
  /\ pc[p] \in {"seo_call", "seo_retry"}
  /\ ProviderCalled(p, "seo_retry")
  /\ LET this == SeoClosure(Drug(p), answer) IN
     IF ~this.threw
     THEN /\ cache' = Kept(AfterRun(cache, SeoKey(Drug(p)), this, SeoTtl))
          /\ wrote' = [wrote EXCEPT ![p] = IF this.stored THEN @ \cup {SeoKey(Drug(p))} ELSE @]
          /\ seoMetadata' = [seoMetadata EXCEPT ![p] = this.value]
          /\ pc' = [pc EXCEPT ![p] = "summary_start"]
          /\ UNCHANGED <<result, path, failed>>
     ELSE IF RetryDecision(AttemptNumber(p, "seo_retry"), this.error).rethrow
     THEN /\ CatchInGetEnhancedContent(p)
          /\ failed' = [failed EXCEPT ![p] = @ \cup {"seo"}]
          /\ UNCHANGED seoMetadata
     ELSE /\ pc' = [pc EXCEPT ![p] = "seo_sleep"]
          /\ UNCHANGED <<cache, wrote, seoMetadata, result, path, failed>>
  /\ UNCHANGED <<adapter, openai, cacheUp, probe, searched, api, now, expired, drugOf,
                 enhancedSummary, enhancedData, enhancedSections, invoked, lastSet, gateway>>

\* One attempt of generateDrugSummary under callOpenAIWithRetry.
SummaryAttempt(p, answer) ==
  /\ pc[p] \in {"summary_call", "summary_retry"}
  /\ ProviderCalled(p, "summary_retry")
  /\ LET this == SummaryClosure(Drug(p), answer) IN
     IF ~this.threw
     THEN /\ cache' = Kept(AfterRun(cache, SummaryKey(Drug(p)), this, SummaryTtl))
          /\ wrote' = [wrote EXCEPT ![p] = IF this.stored THEN @ \cup {SummaryKey(Drug(p))} ELSE @]
          /\ enhancedSummary' = [enhancedSummary EXCEPT ![p] = this.value]
          /\ pc' = [pc EXCEPT ![p] = "sections_start"]
          /\ UNCHANGED <<result, path, failed>>
     ELSE IF RetryDecision(AttemptNumber(p, "summary_retry"), this.error).rethrow
     THEN /\ CatchInGetEnhancedContent(p)
          /\ failed' = [failed EXCEPT ![p] = @ \cup {"summary"}]
          /\ UNCHANGED enhancedSummary
     ELSE /\ pc' = [pc EXCEPT ![p] = "summary_sleep"]
          /\ UNCHANGED <<cache, wrote, enhancedSummary, result, path, failed>>
  /\ UNCHANGED <<adapter, openai, cacheUp, probe, searched, api, now, expired, drugOf,
                 seoMetadata, enhancedData, enhancedSections, invoked, lastSet, gateway>>

\* One attempt of enhanceAllSections under callOpenAIWithRetry; when the last
\* attempt throws, the catch block of enhanceAllSectionsAtOnce returns the plain
\* sections.
BatchAttempt(p, answer) ==
  /\ pc[p] \in {"batch_call", "batch_retry"}
  /\ ProviderCalled(p, "batch_retry")
  /\ LET this == BatchClosure(Drug(p), answer) IN
     IF ~this.threw
     THEN /\ cache' = Kept(AfterRun(cache, SectionsKey(Drug(p)), this, SectionsTtl))
          /\ wrote' = [wrote EXCEPT ![p] = IF this.stored THEN @ \cup {SectionsKey(Drug(p))} ELSE @]
          /\ enhancedData' = [enhancedData EXCEPT ![p] = this.value]
          /\ pc' = [pc EXCEPT ![p] = "sections_map"]
          /\ UNCHANGED <<enhancedSections, failed>>
     ELSE IF RetryDecision(AttemptNumber(p, "batch_retry"), this.error).rethrow
     THEN /\ enhancedSections' = [enhancedSections EXCEPT ![p] = buildDrugSections(Drug(p))]
          /\ failed' = [failed EXCEPT ![p] = @ \cup {"sections"}]
          /\ pc' = [pc EXCEPT ![p] = "gec_persist"]
          /\ UNCHANGED <<cache, enhancedData, wrote>>
     ELSE /\ pc' = [pc EXCEPT ![p] = "batch_sleep"]
          /\ UNCHANGED <<cache, wrote, enhancedData, enhancedSections, failed>>
  /\ UNCHANGED <<adapter, openai, cacheUp, probe, searched, api, now, expired, drugOf,
                 seoMetadata, enhancedSummary, result, path, invoked, lastSet, gateway>>

\* await this.sleep(delay) resolves: callOpenAIWithRetry calls itself with
\* attempt + 1.
Retrying == [seo_sleep |-> "seo_retry", summary_sleep |-> "summary_retry",
             batch_sleep |-> "batch_retry"]
SleepElapsed(p) ==
  /\ pc[p] \in DOMAIN Retrying
  /\ pc' = [pc EXCEPT ![p] = Retrying[pc[p]]]
  /\ retrying' = [retrying EXCEPT ![p].waits = @ + 1]
  /\ UNCHANGED <<calls, adapter, openai, cacheUp, probe, searched, api, cache, now, expired,
                 drugOf, locals, result, history, gateway>>

\* What a request in service does next: every await resolves or rejects, and
\* the event loop runs its continuation.
StepsLive ==
  \/ GecCacheCheck(1)
  \/ SeoStart(1)
  \/ \E a \in SeoAnswers : SeoAttempt(1, a)
  \/ SummaryStart(1)
  \/ \E a \in SummaryAnswers : SummaryAttempt(1, a)
  \/ SectionsStart(1)
  \/ BatchStart(1)
  \/ \E a \in BatchAnswers(Drug(1)) : BatchAttempt(1, a)
  \/ SleepElapsed(1)
  \/ SectionsMap(1)
  \/ GecPersist(1)

\* Requests for one record served one at a time, their retries attempt by attempt.
NextLive ==
  \/ GetEnhancedContentCall(1, 1)
  \/ StepsLive
  \/ Return(1)

SpecLive == Init /\ [][NextLive]_vars /\ WF_vars(StepsLive)

\* -------------------------------------------------------------- DrugController
\* The characters of a JavaScript string.
CharsOf(str) == [i \in 1..Len(str) |-> SubSeq(str, i, i)]

\* String.prototype.indexOf(char), 0-based; -1 when the character is not there.
IndexOf(s, char) ==
  IF \E i \in DOMAIN s : s[i] = char
  THEN (CHOOSE i \in DOMAIN s : s[i] = char /\ \A j \in 1..(i - 1) : s[j] # char) - 1
  ELSE -1

\* String.prototype.substring(from) and substring(0, to), 0-based.
SubstringFrom(s, from) == SubSeq(s, from + 1, Len(s))
SubstringTo(s, to) == SubSeq(s, 1, to)

\* DrugService.getBasicContent
getBasicContent(drug, time) ==
  [ id |-> drug.setId,
    drugName |-> Str(drug.drugName),
    genericName |-> Str(drug.genericName),
    slug |-> createSlug(drug.drugName),
    sections |-> buildDrugSections(drug),
    lastUpdated |-> time ]

\* The exceptions the controller raises, and its answers.
NotFoundException(message) == [status |-> 404, message |-> message, body |-> Nothing]
Ok(body) == [status |-> 200, message |-> "", body |-> body]
\* A call of DrugService made by the controller.
ServiceCall(method, drugName, genericName, drug) ==
  [method |-> method, drugName |-> drugName, genericName |-> genericName, drug |-> drug]

\* The two routes up to the drug: the identifier is split at its first hyphen
\* and looked up; drug is 0 when the request has been refused.
ResolveIdentifier(drugIdentifier) ==
  LET firstHyphenIndex == IndexOf(drugIdentifier, "-")
      drugName == SubstringTo(drugIdentifier, firstHyphenIndex)
      genericName == SubstringFrom(drugIdentifier, firstHyphenIndex + 1)
      drug == getDrugByNames(drugName, Given(genericName))
  IN IF firstHyphenIndex = -1
     THEN [drug |-> 0, calls |-> <<>>,
           refusal |-> NotFoundException("Invalid drug identifier format: "
                                         \o Str(drugIdentifier))]
     ELSE [drug |-> drug,
           calls |-> <<ServiceCall("getDrugByNames", Str(drugName), Str(genericName), 0)>>,
           refusal |-> NotFoundException("Drug not found: " \o Str(drugName) \o "/"
                                         \o Str(genericName))]

\* DrugController.getDrugApi, GET api/drugs/:drugIdentifier
GetDrugApi(drugIdentifier) ==
  /\ api = NoApi
  /\ pc[1] = "idle"
  /\ now < MaxRequests
  /\ now' = now + 1
  /\ LET found == ResolveIdentifier(drugIdentifier) IN
     api' = [ route |-> "api/drugs/:drugIdentifier",
              drugIdentifier |-> drugIdentifier,
              calls |-> IF found.drug = 0 THEN found.calls
                        ELSE Append(found.calls,
                                    ServiceCall("getBasicContent", "", "", found.drug)),
              response |-> IF found.drug = 0 THEN found.refusal
                           ELSE Ok(getBasicContent(Drugs[found.drug], now)) ]
  /\ UNCHANGED <<retries, openai, cacheUp, probe, searched, adapter, cache, expired, pc, drugOf,
                 locals, result, history, gateway>>

\* DrugController.getDrugEnhancedApi, GET api/drugs/:drugIdentifier/enhanced,
\* up to its response or to its call of getEnhancedContent(drug).
GetDrugEnhancedApi(drugIdentifier) ==
  /\ api = NoApi
  /\ pc[1] = "idle"
  /\ now < MaxRequests
  /\ now' = now + 1
  /\ LET found == ResolveIdentifier(drugIdentifier) IN
     /\ api' = [ route |-> "api/drugs/:drugIdentifier/enhanced",
                 drugIdentifier |-> drugIdentifier,
                 calls |-> IF found.drug = 0 THEN found.calls
                           ELSE found.calls \o
                                << ServiceCall("getBasicContent", "", "", found.drug),
                                   ServiceCall("getEnhancedContent", "", "", found.drug) >>,
                 response |-> IF found.drug = 0 THEN found.refusal ELSE Nothing ]
     /\ IF found.drug = 0
        THEN UNCHANGED <<pc, drugOf>>
        ELSE /\ pc' = [pc EXCEPT ![1] = "gec_cacheGet"]
             /\ drugOf' = [drugOf EXCEPT ![1] = found.drug]
  /\ UNCHANGED <<retries, openai, cacheUp, probe, searched, adapter, cache, expired, locals, result,
                 history, gateway>>

\* getEnhancedContent has resolved: getDrugEnhancedApi picks four of its members.
GetDrugEnhancedApiReturn ==
  /\ pc[1] = "done"
  /\ api # NoApi
  /\ api.response = Nothing
  /\ api' = [api EXCEPT !.response =
               Ok([ seoTitle |-> result[1].value.seoTitle,
                    metaDescription |-> result[1].value.metaDescription,
                    enhancedSummary |-> result[1].value.enhancedSummary,
                    sections |-> result[1].value.sections ])]
  /\ pc' = [pc EXCEPT ![1] = "responded"]
  /\ UNCHANGED <<retries, openai, cacheUp, probe, searched, adapter, cache, now, expired, drugOf,
                 locals, result, history, gateway>>

\* The response has been sent; the call's frames are gone.
ApiSent ==
  /\ api # NoApi
  /\ api.response # Nothing
  /\ api' = NoApi
  /\ pc' = [pc EXCEPT ![1] = "idle"]
  /\ seoMetadata' = [seoMetadata EXCEPT ![1] = JsonNull]
  /\ enhancedSummary' = [enhancedSummary EXCEPT ![1] = ""]
  /\ enhancedData' = [enhancedData EXCEPT ![1] = JsonNull]
  /\ enhancedSections' = [enhancedSections EXCEPT ![1] = <<>>]
  /\ result' = [result EXCEPT ![1] = NoResult]
  /\ path' = [path EXCEPT ![1] = "none"]
  /\ invoked' = [invoked EXCEPT ![1] = {}]
  /\ failed' = [failed EXCEPT ![1] = {}]
  /\ wrote' = [wrote EXCEPT ![1] = {}]
  /\ drugOf' = [drugOf EXCEPT ![1] = 1]
  /\ UNCHANGED <<retries, openai, cacheUp, probe, searched, adapter, cache, now, expired, lastSet,
                 gateway>>

\* The identifiers a client asks for.
DrugIdentifiers ==
  { CharsOf("aspirin-acetylsalicylic-acid"), CharsOf("Aspirin-"), CharsOf("aspirin"),
    CharsOf("tylenol-pm-acetaminophen"), CharsOf("zzz-zzz") }

\* HTTP calls of the two API routes served one at a time.
NextApi ==
  \/ \E i \in DrugIdentifiers : GetDrugApi(i)
  \/ \E i \in DrugIdentifiers : GetDrugEnhancedApi(i)
  \/ GecCacheCheck(1)
  \/ SeoStart(1)
  \/ \E a \in SeoRaceScripts : SeoCall(1, a)
  \/ SummaryStart(1)
  \/ \E a \in SummaryRaceScripts : SummaryCall(1, a)
  \/ SectionsStart(1)
  \/ BatchStart(1)
  \/ \E a \in BatchRaceScripts[drugOf[1]] : BatchCall(1, a)
  \/ SectionsMap(1)
  \/ GecPersist(1)
  \/ GetDrugEnhancedApiReturn
  \/ ApiSent

SpecApi == Init /\ [][NextApi]_vars

\* ------------------------------------------------------ searchDrugs on its own
\* The searches: with and without a query and a labeler, any page of any size
\* up to one more than the catalog holds, and a page of 0.
MaxPage == Len(Drugs) + 1
SearchPages == {NotGivenNumber} \cup {GivenNumber(n) : n \in 0..MaxPage}
SearchLimits == {NotGivenNumber} \cup {GivenNumber(n) : n \in 1..MaxPage}
Searches ==
  {[NoArguments EXCEPT !.present = TRUE, !.query = q, !.labeler = l, !.page = n, !.limit = m] :
     q \in {NotGiven, Given(Chars("a")), Given(Chars("aspirin")), Given(Chars("zzz"))},
     l \in {NotGiven, Given(Chars("Pharma"))},
     n \in SearchPages, m \in SearchLimits}

\* const page = this.searchDrugs(searchDto)
SearchDrugsCall(args) ==
  /\ searched = NoSearch
  /\ searched' = [args |-> args, page |-> searchDrugs(args)]
  /\ UNCHANGED <<retries, openai, cacheUp, probe, api, adapter, cache, now, expired, pc, drugOf,
                 locals, result, history, gateway>>

\* The caller has the page.
SearchDrugsReturn ==
  /\ searched # NoSearch
  /\ searched' = NoSearch
  /\ UNCHANGED <<retries, openai, cacheUp, probe, api, adapter, cache, now, expired, pc, drugOf,
                 locals, result, history, gateway>>

NextSearch ==
  \/ \E args \in Searches : SearchDrugsCall(args)
  \/ SearchDrugsReturn

SpecSearch == Init /\ [][NextSearch]_vars

\* -------------------------------------------------- the cache's store goes down
\* The store behind CacheService stops answering, or answers again, while a
\* request is being served (between requests nobody sees the difference).
CacheFault ==
  /\ \E p \in Procs : pc[p] \notin {"idle", "done"}
  /\ cacheUp' = ~cacheUp
  /\ UNCHANGED <<retries, openai, probe, searched, api, adapter, cache, now, expired, pc, drugOf,
                 locals, result, history, gateway>>

\* Requests for one record served one at a time while the store comes and goes.
NextOutage ==
  \/ CacheFault
  \/ GetEnhancedContentCall(1, 1)
  \/ GecCacheCheck(1)
  \/ SeoStart(1)
  \/ \E a \in SeoRaceScripts : SeoCall(1, a)
  \/ SummaryStart(1)
  \/ \E a \in SummaryRaceScripts : SummaryCall(1, a)
  \/ SectionsStart(1)
  \/ BatchStart(1)
  \/ \E a \in BatchRaceScripts[drugOf[1]] : BatchCall(1, a)
  \/ SectionsMap(1)
  \/ GecPersist(1)
  \/ Return(1)

SpecOutage == Init /\ [][NextOutage]_vars

\* ------------------------------------------------------------------ properties
ContentKeyOf(p) == "enhanced_content:" \o Drugs[drugOf[p]].setId
Finished(p) == pc[p] = "done"
\* A text field that is present and not empty.
Filled(text) == text # Undefined /\ text # ""
\* The sections a drug's populated label fields give, written out from the
\* catalog: (title, field) in the order of the section table.
PlainSectionsOf(p) ==
  IF drugOf[p] = 1
  THEN << [id |-> "123-indicationsAndUsage", title |-> "Indications and Usage",
           content |-> "Pain relief", order |-> 1],
          [id |-> "123-dosageAndAdministration", title |-> "Dosage and Administration",
           content |-> "325mg daily", order |-> 2] >>
  ELSE << [id |-> "456-warningsAndPrecautions", title |-> "Warnings and Precautions",
           content |-> "Liver", order |-> 1],
          [id |-> "456-description", title |-> "Description",
           content |-> " ", order |-> 2] >>

\* C1 - fallback completeness: when the title/description call or the summary
\* call has failed after its retries, the request ends on the fallback path with
\* non-empty seoTitle, metaDescription and enhancedSummary, and its sections are
\* the plain sections of the label, none carrying enhancedContent.
FallbackCompleteness ==
  \A p \in Procs :
    Finished(p) /\ failed[p] \cap {"seo", "summary"} # {} =>
      /\ path[p] = "fallback"
      /\ Filled(result[p].value.seoTitle)
      /\ Filled(result[p].value.metaDescription)
      /\ Filled(result[p].value.enhancedSummary)
      /\ result[p].value.sections = PlainSectionsOf(p)
      /\ \A i \in DOMAIN result[p].value.sections :
           "enhancedContent" \notin DOMAIN result[p].value.sections[i]
FallbackReached == Finished(1) /\ "seo" \in failed[1] /\ path[1] = "fallback"

\* C2 - cache-hit path: a request that finds enhanced_content:<setId> in the
\* cache resolves to exactly that value in its next step, with the cache as it
\* was, no Gateway operation invoked and nothing written.
CacheHitReturnsCached ==
  [][\A p \in Procs :
       pc[p] = "gec_cacheGet" /\ ContentKeyOf(p) \in DOMAIN cache =>
         /\ pc'[p] = "done"
         /\ result'[p] = [kind |-> "value", value |-> cache[ContentKeyOf(p)].value]
         /\ cache' = cache
         /\ invoked'[p] = {}
         /\ wrote'[p] = {}]_vars
CacheHitReached == Finished(1) /\ path[1] = "hit" /\ invoked[1] = {}

AlwaysCompleteObject ==
  \A p \in Procs :
    Finished(p) =>
      /\ DOMAIN result[p].value = {"id", "drugName", "genericName", "slug", "seoTitle",
                                   "metaDescription", "enhancedSummary", "sections",
                                   "lastUpdated"}
      /\ result[p].value.seoTitle # Undefined
      /\ result[p].value.metaDescription # Undefined
      /\ result[p].value.enhancedSummary # Undefined

\* C5 - retry bound: one call of a Gateway operation calls the provider at
\* most 3 times; every failed attempt before the third is followed by another
\* attempt, a successful attempt ends the call, and the third failure is
\* rethrown.
RetryBound ==
  gateway # NoCall =>
    LET r == gateway.run
        failures == Len(r.errors) IN
    /\ r.calls <= 3
    /\ r.calls = IF r.threw \/ gateway.source # "provider" THEN failures ELSE failures + 1
    /\ r.threw <=> failures = 3
    /\ r.threw => r.error = r.errors[3]
    /\ \A k \in 1..failures :
         gateway.script.fails # <<>> /\ k <= Len(gateway.script.fails) =>
           r.errors[k] = gateway.script.fails[k].error
ThirdFailureRethrown == gateway # NoCall /\ gateway.run.threw /\ gateway.run.calls = 3

\* C6 - backoff: after failed attempt k (k < 3) the wait is 1000 * 2^(k-1) ms
\* when the error has status 429 or code rate_limit_exceeded, and 500 ms
\* otherwise; there is no wait after the final attempt.
BackoffDelays ==
  gateway # NoCall =>
    LET r == gateway.run IN
    /\ Len(r.delays) = IF r.threw THEN Len(r.errors) - 1 ELSE Len(r.errors)
    /\ \A k \in 1..Len(r.delays) :
         r.delays[k] = IF r.errors[k].status = 429 \/ r.errors[k].code = "rate_limit_exceeded"
                       THEN 1000 * (2 ^ (k - 1))
                       ELSE 500
TwoRateLimitsThenSuccess ==
  /\ gateway # NoCall /\ ~gateway.run.threw
  /\ gateway.run.calls = 3
  /\ gateway.run.errors[1].code = "rate_limit_exceeded"
  /\ gateway.run.delays = <<1000, 2000>>

\* C7 - concurrent population: of two requests that both missed and both
\* wrote enhanced_content:<setId>, the cache holds the value whose set came
\* last, and each request resolves to the value it assembled itself.
LastWriterWins ==
  \A p \in Procs :
    Finished(p) /\ path[p] = "generated" =>
      /\ result[p].value.seoTitle = Prop(seoMetadata[p], "title")
      /\ result[p].value.enhancedSummary = enhancedSummary[p]
      /\ result[p].value.sections = enhancedSections[p]
      /\ lastSet[drugOf[p]] = p => cache[ContentKeyOf(p)].value = result[p].value
BothWroteDifferentValues ==
  /\ Finished(1) /\ Finished(2)
  /\ drugOf[1] = drugOf[2]
  /\ path[1] = "generated" /\ path[2] = "generated"
  /\ result[1].value # result[2].value
  /\ lastSet[drugOf[1]] = 1
  /\ cache[ContentKeyOf(1)].value = result[1].value

\* The MCP call of p has its response.
Responded(p) == pc[p] = "responded"
\* The text of a tool result in a response.
ToolText(response) == response.result.content[1].text
\* getEnhancedContent was not called for the MCP call of p.
NoContentCall(p) ==
  path[p] = "none" /\ result[p] = NoResult /\ invoked[p] = {} /\ wrote[p] = {}

\* C8 - tool not-found convention: get_drug_by_name and get_enhanced_sections
\* with a name that matches no drug answer with a result, no error member,
\* isError true and the text 'Drug not found: <drugName>', or
\* 'Drug not found: <drugName> (<genericName>)' when a non-empty generic name
\* came with it, and getEnhancedContent is not called; a call of a tool that is
\* not registered answers with a result, isError true and the text
\* 'Error executing tool: Unknown tool: <name>'.
ToolNotFoundConvention ==
  \A p \in Procs :
    Responded(p) /\ mcpRequest[p].method = "tools/call" /\ mcpRequest[p].params.present =>
      LET call == mcpRequest[p].params
          drugName == Str(call.arguments.drugName.chars)
          genericName == Str(call.arguments.genericName.chars)
          noMatch == \/ drugName = "zzz"
                     \/ genericName # "" /\ drugName \in {"aspirin", "acetaminophen"} IN
      /\ /\ call.name \in {"get_drug_by_name", "get_enhanced_sections"}
         /\ call.arguments.present /\ call.arguments.drugName.given /\ noMatch
         => /\ DOMAIN mcpResponse[p] = {"jsonrpc", "id", "result"}
            /\ mcpResponse[p].result.isError
            /\ ToolText(mcpResponse[p]).string =
                 IF genericName # ""
                 THEN "Drug not found: " \o drugName \o " (" \o genericName \o ")"
                 ELSE "Drug not found: " \o drugName
            /\ NoContentCall(p)
      /\ call.name \notin {"get_drug_by_name", "search_drugs", "get_enhanced_sections"}
         => /\ DOMAIN mcpResponse[p] = {"jsonrpc", "id", "result"}
            /\ mcpResponse[p].result.isError
            /\ ToolText(mcpResponse[p]).string = "Error executing tool: Unknown tool: " \o call.name
NotFoundWithGenericName ==
  /\ Responded(1) /\ mcpRequest[1].method = "tools/call"
  /\ mcpRequest[1].params.name = "get_enhanced_sections"
  /\ "result" \in DOMAIN mcpResponse[1]
  /\ mcpResponse[1].result.isError
  /\ ToolText(mcpResponse[1]) = PlainText("Drug not found: aspirin (Acetaminophen)")

\* C9 as stated - every tools/call is answered with a result and never with a
\* protocol-level error member.
ToolCallNeverProtocolError ==
  \A p \in Procs :
    Responded(p) /\ mcpRequest[p].method = "tools/call" =>
      DOMAIN mcpResponse[p] = {"jsonrpc", "id", "result"}

\* C10 - unknown method: a request whose method is none of initialize,
\* tools/list and tools/call is answered with error code -32601 and message
\* 'Method not found: <method>', no result member, and no call of lookup,
\* search or getEnhancedContent.
UnknownMethodNotFound ==
  \A p \in Procs :
    Responded(p) /\ mcpRequest[p].method \notin {"initialize", "tools/list", "tools/call"} =>
      /\ DOMAIN mcpResponse[p] = {"jsonrpc", "id", "error"}
      /\ mcpResponse[p].error.code = -32601
      /\ mcpResponse[p].error.message = "Method not found: " \o mcpRequest[p].method
      /\ NoContentCall(p)
UnknownMethodAnswered ==
  /\ Responded(1) /\ mcpRequest[1].method = "resources/list"
  /\ "error" \in DOMAIN mcpResponse[1]
  /\ mcpResponse[1].error.message = "Method not found: resources/list"

\* The id a response must carry for a request id: the id itself, null when the
\* request has none or has null.
EchoOf(id) == IF id.kind \in {"absent", "null"} THEN IdNull ELSE id

\* C11 as stated - correlation id echo: every response carries the id of its
\* request, whatever the method and the outcome, 0 and the empty string
\* included, and null when the request has no id or a null id.
IdEchoed ==
  \A p \in Procs :
    Responded(p) => /\ "id" \in DOMAIN mcpResponse[p]
                    /\ mcpResponse[p].id = EchoOf(mcpRequest[p].id)

\* C12 - adapter boundary: the controller answers every request; when
\* handleRequest throws e the answer is an envelope with error code -32603,
\* message 'Internal error', data e.message and no result member; otherwise it
\* is the response of handleRequest, unchanged.
ControllerBoundary ==
  \A p \in Procs :
    Responded(p) =>
      LET done == handleRequest(mcpRequest[p]) IN
      /\ done.kind = "throw" =>
           /\ DOMAIN mcpResponse[p] = {"jsonrpc", "id", "error"}
           /\ mcpResponse[p].jsonrpc = "2.0"
           /\ mcpResponse[p].error =
                [code |-> -32603, message |-> "Internal error", data |-> done.message]
      /\ done.kind = "return" => mcpResponse[p] = done.value
      /\ done.kind = "await" =>
           mcpResponse[p] =
                ResultResponse(IdOrNullish(mcpRequest[p].id),
                               executeToolReturn(mcpRequest[p].params, result[p].value))
ServiceThrewAndControllerAnswered ==
  /\ Responded(1)
  /\ handleRequest(mcpRequest[1]).kind = "throw"
  /\ "error" \in DOMAIN mcpResponse[1]
  /\ mcpResponse[1].error.data = "Cannot read properties of undefined (reading 'name')"

\* The indices of the sections of a content that carry enhanced text, and the
\* k-th of them in the original order.
EnhancedIndices(sections) ==
  {i \in DOMAIN sections : "enhancedContent" \in DOMAIN sections[i]
                           /\ sections[i].enhancedContent \notin {Undefined, ""}}
KthOf(indices, k) ==
  CHOOSE i \in indices : Cardinality({j \in indices : j < i}) = k - 1

\* C13 - enhanced-section filtering: get_enhanced_sections for a found record
\* answers with exactly the sections of its content that have enhancedContent,
\* in their original order, each with exactly the members title,
\* originalContent (the section's content) and enhancedContent; sections
\* without enhancedContent are left out, and the result is not flagged isError.
EnhancedSectionsFiltered ==
  \A p \in Procs :
    /\ Responded(p) /\ mcpRequest[p].method = "tools/call"
    /\ mcpRequest[p].params.present /\ mcpRequest[p].params.name = "get_enhanced_sections"
    /\ result[p] # NoResult
    => LET sections == result[p].value.sections
           kept == EnhancedIndices(sections)
           listed == ToolText(mcpResponse[p]).value.enhancedSections IN
       /\ DOMAIN mcpResponse[p] = {"jsonrpc", "id", "result"}
       /\ ~mcpResponse[p].result.isError
       /\ Len(listed) = Cardinality(kept)
       /\ \A k \in 1..Len(listed) :
            /\ DOMAIN listed[k] = {"title", "originalContent", "enhancedContent"}
            /\ listed[k].title = sections[KthOf(kept, k)].title
            /\ listed[k].originalContent = sections[KthOf(kept, k)].content
            /\ listed[k].enhancedContent = sections[KthOf(kept, k)].enhancedContent
OneOfTwoSectionsListed ==
  /\ Responded(1) /\ mcpRequest[1].method = "tools/call"
  /\ mcpRequest[1].params.name = "get_enhanced_sections"
  /\ result[1] # NoResult
  /\ Len(result[1].value.sections) = 2
  /\ "result" \in DOMAIN mcpResponse[1]
  /\ Len(ToolText(mcpResponse[1]).value.enhancedSections) = 1
  /\ ToolText(mcpResponse[1]).value.enhancedSections[1].title = "Warnings and Precautions"

SectionOrdering ==
  probe # NoProbe =>
    LET label == probe.label
        sections == probe.sections
        populated == {i \in DOMAIN SectionKeys :
                        /\ SectionKeys[i] \in DOMAIN label.fields
                        /\ label.fields[SectionKeys[i]] # <<>>} IN
    /\ SectionKeys[1] = "indicationsAndUsage"
    /\ SectionKeys[Len(SectionKeys)] = "instructionsForUse"
    /\ Len(SectionKeys) = 12
    /\ Len(sections) = Cardinality(populated)
    /\ \A n \in 1..Len(sections) :
         /\ DOMAIN sections[n] = {"id", "title", "content", "order"}
         /\ sections[n].order = n
         /\ sections[n].id = label.setId \o "-" \o SectionKeys[KthOf(populated, n)]
         /\ sections[n].title = SectionTitles[KthOf(populated, n)]
         /\ sections[n].content = Str(label.fields[SectionKeys[KthOf(populated, n)]])
ThreeSectionsAmongEmptyFields ==
  /\ probe # NoProbe
  /\ DOMAIN probe.label.fields = Range(SectionKeys)
  /\ Len(probe.sections) = 3
  /\ probe.sections[1].id = "123-indicationsAndUsage"
  /\ probe.sections[2].id = "123-howSupplied"
  /\ probe.sections[3].id = "123-instructionsForUse"
  /\ probe.sections[3].order = 3

\* The template texts of the two drugs of the catalog.
TemplateTitle(d) ==
  IF d = 1 THEN "Aspirin (acetylsalicylic-acid) - Prescription Info"
  ELSE "Tylenol PM (acetaminophen) - Prescription Info"
TemplateDescription(d) ==
  IF d = 1
  THEN "Complete prescribing information for Aspirin (acetylsalicylic-acid) by Test Pharma. Dosage, side effects, warnings & more."
  ELSE "Complete prescribing information for Tylenol PM (acetaminophen) by Kenvue. Dosage, side effects, warnings & more."
TemplateSummary(d) ==
  IF d = 1
  THEN "Aspirin is a prescription medication containing the active ingredient acetylsalicylic-acid, manufactured by Test Pharma."
  ELSE "Tylenol PM is a prescription medication containing the active ingredient acetaminophen, manufactured by Kenvue."

\* C16 - disabled Gateway: without a credential every Gateway operation
\* returns its fallback (template title and description, template summary,
\* empty section map) for every record, throws nothing, calls the provider
\* not once and leaves the cache as it was.
DisabledGatewayFallback ==
  gateway # NoCall /\ ~openai =>
    /\ gateway.run.calls = 0
    /\ gateway.run.errors = <<>>
    /\ ~gateway.run.threw
    /\ cache = gateway.before
    /\ gateway.op = "seo" =>
         gateway.run.value = JsonObject([title |-> TemplateTitle(gateway.drug),
                                         description |-> TemplateDescription(gateway.drug)])
    /\ gateway.op = "summary" => gateway.run.value = TemplateSummary(gateway.drug)
    /\ gateway.op = "sections" => gateway.run.value = JsonObject([k \in {} |-> ""])
DisabledBatchOverWillingProvider ==
  /\ gateway # NoCall /\ ~openai
  /\ gateway.op = "sections" /\ gateway.drug = 2
  /\ gateway.script.final.kind = "content" /\ gateway.script.final.text.syntax = "json"
  /\ gateway.run.value = JsonObject([k \in {} |-> ""])

\* The k-th answer of the provider is no section map: a rejection, or text
\* that is not JSON.
NoMapAt(script, k) ==
  LET answer == IF k <= Len(script.fails) THEN script.fails[k] ELSE script.final IN
  answer.kind = "reject" \/ answer.text.syntax # "json"
\* The section batch reached the provider and its three attempts all failed.
BatchFailed ==
  /\ gateway # NoCall /\ gateway.op = "sections" /\ gateway.source = "provider"
  /\ \A k \in 1..3 : NoMapAt(gateway.script, k)

BeginsWith(text, prefix) ==
  Len(text) >= Len(prefix) /\ SubSeq(text, 1, Len(prefix)) = prefix

\* getEnhancedContent for the Aspirin record has generated its content with
\* the Gateway disabled.
AspirinGeneratedWhileDisabled ==
  Finished(1) /\ ~openai /\ drugOf[1] = 1 /\ path[1] = "generated"

\* The Aspirin content has the template title and exactly the two plain sections.
AspirinTitleAndSections ==
  /\ result[1].value.seoTitle = "Aspirin (acetylsalicylic-acid) - Prescription Info"
  /\ Len(result[1].value.sections) = 2
  /\ result[1].value.sections[1].title = "Indications and Usage"
  /\ result[1].value.sections[1].order = 1
  /\ result[1].value.sections[1].enhancedContent = Undefined
  /\ result[1].value.sections[2].title = "Dosage and Administration"
  /\ result[1].value.sections[2].order = 2
  /\ result[1].value.sections[2].enhancedContent = Undefined

\* C19 as stated - with no credential and an empty cache getEnhancedContent for
\* the Aspirin record returns the template title, a summary that begins
\* 'Aspirin is a prescription medication containing acetylsalicylic-acid' and
\* the two sections in order, both without enhancedContent.
DisabledEndToEnd ==
  AspirinGeneratedWhileDisabled =>
    /\ AspirinTitleAndSections
    /\ BeginsWith(result[1].value.enhancedSummary,
                  "Aspirin is a prescription medication containing acetylsalicylic-acid")

\* C19 as amended - the same, with the summary of the Gateway's template: it
\* begins 'Aspirin is a prescription medication containing the active
\* ingredient acetylsalicylic-acid'.
DisabledEndToEndGatewayTemplate ==
  AspirinGeneratedWhileDisabled =>
    /\ AspirinTitleAndSections
    /\ BeginsWith(result[1].value.enhancedSummary,
                  "Aspirin is a prescription medication containing the active ingredient acetylsalicylic-acid")
    /\ failed[1] = {}
DisabledAspirinServed ==
  /\ AspirinGeneratedWhileDisabled
  /\ invoked[1] = {"seo", "summary", "sections"}
  /\ result[1].value.enhancedSummary =
       "Aspirin is a prescription medication containing the active ingredient acetylsalicylic-acid, manufactured by Test Pharma."
  /\ cache[ContentKeyOf(1)].value = result[1].value

\* The keys of a namespace, one per record.
Namespace(prefix) == {prefix \o Drugs[d].setId : d \in DrugIds}
\* Every entry and every key written is in one of the namespaces, with its TTL.
WritesWithin(dayNamespaces, hourNamespaces) ==
  /\ \A k \in DOMAIN cache :
       \/ k \in UNION {Namespace(n) : n \in dayNamespaces} /\ cache[k].ttl = 86400
       \/ k \in UNION {Namespace(n) : n \in hourNamespaces} /\ cache[k].ttl = 3600
  /\ \A p \in Procs :
       wrote[p] \subseteq UNION {Namespace(n) : n \in dayNamespaces \cup hourNamespaces}

\* C20 as stated - every cache write of the pipeline uses a key of one of the
\* four namespaces enhanced_content, seo_metadata, drug_summary and
\* enhanced_sections, with TTL 3600 for enhanced_content and 86400 for the
\* other three; no other key is written.
FourNamespaces ==
  WritesWithin({"seo_metadata:", "drug_summary:", "enhanced_sections:"}, {"enhanced_content:"})

\* C20 as amended - every cache write of the pipeline uses a key of one of the
\* five namespaces enhanced_content, enhanced_all_sections, seo_metadata,
\* drug_summary and enhanced_sections, with TTL 3600 for the first two and
\* 86400 for the other three; no other key is written.
FiveNamespaces ==
  WritesWithin({"seo_metadata:", "drug_summary:", "enhanced_sections:"},
               {"enhanced_content:", "enhanced_all_sections:"})
AllFiveWritten ==
  /\ Finished(1) /\ drugOf[1] = 2
  /\ wrote[1] = {"seo_metadata:456", "drug_summary:456", "enhanced_sections:456",
                 "enhanced_all_sections:456", "enhanced_content:456"}
  /\ DOMAIN cache = wrote[1]
  /\ cache["enhanced_all_sections:456"].ttl = 3600
  /\ cache["enhanced_sections:456"].ttl = 86400

\* C21 - handshake and catalog: initialize always answers with protocolVersion
\* '2024-11-05', capabilities {tools {}} and serverInfo {name
\* 'rxview-drug-server', version '1.0.0'}; tools/list always answers with the
\* tools get_drug_by_name, search_drugs and get_enhanced_sections in that
\* order; both whatever the params and the earlier requests, and without a
\* call of the lookup, the search, getEnhancedContent, the cache or the provider.
HandshakeAndCatalogFixed ==
  \A p \in Procs :
    Responded(p) =>
      /\ mcpRequest[p].method = "initialize" =>
           /\ DOMAIN mcpResponse[p] = {"jsonrpc", "id", "result"}
           /\ mcpResponse[p].result =
                [ protocolVersion |-> "2024-11-05",
                  capabilities |-> [tools |-> <<>>],
                  serverInfo |-> [name |-> "rxview-drug-server", version |-> "1.0.0"] ]
           /\ NoContentCall(p)
      /\ mcpRequest[p].method = "tools/list" =>
           /\ DOMAIN mcpResponse[p] = {"jsonrpc", "id", "result"}
           /\ DOMAIN mcpResponse[p].result = {"tools"}
           /\ Len(mcpResponse[p].result.tools) = 3
           /\ mcpResponse[p].result.tools[1].name = "get_drug_by_name"
           /\ mcpResponse[p].result.tools[2].name = "search_drugs"
           /\ mcpResponse[p].result.tools[3].name = "get_enhanced_sections"
           /\ NoContentCall(p)
CatalogAfterEarlierRequest ==
  /\ Responded(1) /\ mcpRequest[1].method = "tools/list"
  /\ mcpRequest[1].params.present
  /\ now = 2 /\ cache # <<>>
  /\ mcpResponse[1].result.tools[2].name = "search_drugs"

\* C22 - search pagination: for page p >= 1 and limit l >= 1 (absent: 1 and
\* 20) over a filtered list of T records, searchDrugs returns the records at
\* the 0-based indices [(p-1)*l, min(p*l, T)) in catalog order, total = T,
\* totalPages = ceil(T/l), hasNext exactly when p*l < T, hasPrev exactly when
\* p > 1; the pages 1..totalPages hold every filtered record exactly once.
NameOf(i) == Str(Drugs[i].drugName)
PageHolds(page, name) == \E k \in DOMAIN page.drugs : page.drugs[k].drugName = name
SearchPagination ==
  searched # NoSearch =>
    LET args == searched.args
        filtered == filteredDrugs(args)
        T == Len(filtered)
        p == IF args.page.given THEN args.page.n ELSE 1
        l == IF args.limit.given THEN args.limit.n ELSE 20
        upTo == IF p * l < T THEN p * l ELSE T
        from == (p - 1) * l
        drugs == searched.page.drugs
        pagination == searched.page.pagination
    IN (p >= 1 /\ l >= 1) =>
         /\ Len(drugs) = IF upTo > from THEN upTo - from ELSE 0
         /\ \A k \in DOMAIN drugs : drugs[k].drugName = NameOf(filtered[from + k])
         /\ pagination.page = p /\ pagination.limit = l
         /\ pagination.total = T
         /\ pagination.totalPages * l >= T /\ (pagination.totalPages - 1) * l < T
         /\ pagination.hasNext = (p * l < T)
         /\ pagination.hasPrev = (p > 1)
         /\ \A i \in DOMAIN filtered :
              Cardinality({q \in 1..pagination.totalPages :
                             PageHolds(searchDrugs([args EXCEPT !.page = GivenNumber(q)]),
                                       NameOf(filtered[i]))}) = 1
SecondPageOfTwo ==
  /\ searched # NoSearch
  /\ searched.args.page = GivenNumber(2) /\ searched.args.limit = GivenNumber(1)
  /\ ~searched.args.query.given /\ ~searched.args.labeler.given
  /\ Len(searched.page.drugs) = 1
  /\ searched.page.drugs[1].drugName = "Tylenol PM"
  /\ searched.page.pagination.totalPages = 2
  /\ ~searched.page.pagination.hasNext /\ searched.page.pagination.hasPrev

\* C23 - drug API: getDrugApi (GET api/drugs/:drugIdentifier) for an identifier
\* 'a-b' that resolves to a drug calls getDrugByNames('a', 'b'), the identifier
\* split at its first hyphen, then getEnhancedContent on that drug, and answers
\* with what getEnhancedContent returned; an identifier without a hyphen, or
\* one that resolves to no drug, raises NotFound.
DrugApiReturnsEnhancedContent ==
  (api # NoApi /\ api.route = "api/drugs/:drugIdentifier") =>
    LET text == Str(api.drugIdentifier)
        hyphen == IF \E i \in 1..Len(text) : SubSeq(text, i, i) = "-"
                  THEN CHOOSE i \in 1..Len(text) :
                         /\ SubSeq(text, i, i) = "-"
                         /\ \A j \in 1..(i - 1) : SubSeq(text, j, j) # "-"
                  ELSE 0
        a == SubSeq(text, 1, hyphen - 1)
        b == SubSeq(text, hyphen + 1, Len(text))
    IN IF hyphen = 0 THEN api.response.status = 404
       ELSE /\ Len(api.calls) >= 1
            /\ api.calls[1].method = "getDrugByNames"
            /\ api.calls[1].drugName = a /\ api.calls[1].genericName = b
            /\ IF getDrugByNames(CharsOf(a), Given(CharsOf(b))) = 0
               THEN api.response.status = 404
               ELSE /\ Len(api.calls) = 2
                    /\ api.calls[2].method = "getEnhancedContent"
                    /\ api.calls[2].drug = getDrugByNames(CharsOf(a), Given(CharsOf(b)))
                    /\ api.response.status = 200
                    /\ DOMAIN api.response.body = DOMAIN FallbackContent(Aspirin, 0)

\* C24 - malformed provider responses are not retried: for generateSEOMetadata
\* and enhanceAllSections alike, a provider response that fails JSON parsing
\* leads to exactly one provider call, no backoff wait, and the deterministic
\* fallback (the template metadata, the empty map) as the operation's value.
Malformed(answer) ==
  answer.kind = "content" /\ answer.text.syntax # "json" /\ answer.text.chars # <<>>
MalformedNotRetried ==
  ( /\ gateway # NoCall
    /\ gateway.op \in {"seo", "sections"}
    /\ gateway.source = "provider"
    /\ Malformed(AnswerAt(gateway.script, 1)) ) =>
      /\ gateway.run.calls = 1
      /\ gateway.run.delays = <<>>
      /\ ~gateway.run.threw
      /\ gateway.run.value = IF gateway.op = "seo"
                             THEN getFallbackSEOMetadata(Drugs[gateway.drug])
                             ELSE JsonObject([k \in {} |-> ""])

\* C25 - write before return: a value that a Gateway operation generated from
\* a provider response is stored under the operation's key for the record
\* (seo_metadata:<id>, drug_summary:<id>, enhanced_sections:<id>) before the
\* operation returns it, and a later call of the same operation for the same
\* record while that entry is live returns the stored value without a
\* provider call.
OperationKey(op, drug) ==
  IF op = "seo" THEN SeoKey(drug) ELSE IF op = "summary" THEN SummaryKey(drug) ELSE SectionsKey(drug)
\* The call returned a value made from a provider response, not a template.
ReturnedGenerated ==
  /\ gateway.source = "provider"
  /\ ~gateway.run.threw
  /\ gateway.op = "seo" => gateway.run.value # getFallbackSEOMetadata(Drugs[gateway.drug])
  /\ gateway.op = "summary" => gateway.run.value # getFallbackSummary(Drugs[gateway.drug])
WriteBeforeReturn ==
  gateway # NoCall =>
    LET key == OperationKey(gateway.op, Drugs[gateway.drug]) IN
    /\ ReturnedGenerated =>
         CacheHas(cache, key) /\ CacheGet(cache, key) = gateway.run.value
    /\ CacheHas(gateway.before, key) =>
         /\ gateway.source = "cache"
         /\ gateway.run.calls = 0
         /\ gateway.run.value = CacheGet(gateway.before, key)

\* What an enabled operation does against an empty cache: a function of the
\* record and the provider's answers alone.
FreshRun(op, drug, script) ==
  IF op = "seo" THEN SeoRun(drug, script)
  ELSE IF op = "summary" THEN SummaryRun(drug, script)
  ELSE IF AvailableSections(drug) = {} THEN NoRun(EmptyObject)
  ELSE BatchRun(drug, script)
\* The entry under the operation's own key that its cache check accepts.
OwnEntryLive ==
  LET key == OperationKey(gateway.op, Drugs[gateway.drug]) IN
  /\ CacheHas(gateway.before, key)
  /\ IF gateway.op = "summary" THEN CacheGet(gateway.before, key) # ""
     ELSE CacheGet(gateway.before, key).kind # "null"

\* C26 as stated - no Gateway operation performs a cache lookup, so the result
\* of a call depends only on the record and the provider's responses.
GatewayIgnoresCache ==
  (gateway # NoCall /\ openai) =>
    /\ gateway.source # "cache"
    /\ gateway.run = FreshRun(gateway.op, Drugs[gateway.drug], gateway.script)

\* C26 as amended - each enabled Gateway operation performs one cache lookup,
\* of its own key for the record, before any provider call: a live entry there
\* is returned without a provider call and without a write; otherwise the
\* result depends only on the record and the provider's responses, whatever
\* the other keys hold.
GatewayReadsOwnKey ==
  (gateway # NoCall /\ openai) =>
    IF OwnEntryLive
    THEN /\ gateway.source = "cache"
         /\ gateway.run.calls = 0
         /\ gateway.run.value =
              CacheGet(gateway.before, OperationKey(gateway.op, Drugs[gateway.drug]))
         /\ cache = gateway.before
    ELSE /\ gateway.source # "cache"
         /\ gateway.run = FreshRun(gateway.op, Drugs[gateway.drug], gateway.script)
SeoServedFromOwnKey ==
  /\ gateway # NoCall /\ gateway.op = "seo" /\ gateway.source = "cache"
  /\ gateway.script.fails = <<>> /\ gateway.script.final.kind = "content"
  /\ gateway.script.final.text.syntax = "json"
  /\ gateway.script.final.text.value # gateway.run.value
  /\ gateway.run.calls = 0

\* The batch result behind a request's sections: the one it received, or the
\* one an earlier request left under enhanced_sections:<id>, or the empty map.
BatchResultOf(p) ==
  IF enhancedData[p].kind # "null" THEN enhancedData[p]
  ELSE IF CacheHas(cache, SectionsKey(Drug(p))) THEN CacheGet(cache, SectionsKey(Drug(p)))
  ELSE EmptyObject
\* The field key of the i-th section of a label, read off the section table.
KeyOfSection(drug, i) ==
  LET Holds(k) == SectionKeys[k] \in DOMAIN drug.fields /\ drug.fields[SectionKeys[k]] # <<>>
  IN SectionKeys[CHOOSE k \in DOMAIN SectionKeys :
                   Holds(k) /\ Cardinality({j \in 1..k : Holds(j)}) = i]

\* C27 - assemble preserves the section list: the sections of a generated
\* EnhancedContent have the length, ids, titles, original content and order
\* values of buildDrugSections(record); enhancement only adds enhancedContent,
\* with the batch's text, and only to sections whose field key has a non-empty
\* value in the batch result; every other section has no enhancedContent.
SectionListPreserved ==
  \A p \in Procs :
    (Finished(p) /\ path[p] \in {"generated", "hit"}) =>
      LET plain == buildDrugSections(Drug(p))
          sections == result[p].value.sections
          batch == BatchResultOf(p)
      IN /\ Len(sections) = Len(plain)
         /\ \A i \in DOMAIN sections :
              /\ sections[i].id = plain[i].id
              /\ sections[i].title = plain[i].title
              /\ sections[i].content = plain[i].content
              /\ sections[i].order = plain[i].order
              /\ DOMAIN sections[i] \subseteq DOMAIN plain[i] \cup {"enhancedContent"}
              /\ ("enhancedContent" \in DOMAIN sections[i]
                  /\ sections[i].enhancedContent # Undefined) =>
                   /\ KeyOfSection(Drug(p), i) \in DOMAIN batch.props
                   /\ batch.props[KeyOfSection(Drug(p), i)] # ""
                   /\ sections[i].enhancedContent = batch.props[KeyOfSection(Drug(p), i)]
OneSectionEnhancedOneNot ==
  /\ Finished(1) /\ path[1] = "generated" /\ drugOf[1] = 1
  /\ enhancedData[1].kind = "object"
  /\ "indicationsAndUsage" \in DOMAIN enhancedData[1].props
  /\ enhancedData[1].props["indicationsAndUsage"] = ""
  /\ Len(result[1].value.sections) = 2
  /\ result[1].value.sections[1].enhancedContent = Undefined
  /\ result[1].value.sections[2].enhancedContent = "Plain words: dosageAndAdministration"

\* C28 - progress survives a fallback: with a working cache and within the
\* 86400 s TTL, once a Gateway purpose (SEO metadata, summary, section batch)
\* has succeeded and been cached for a record, no later getEnhancedContent for
\* that record, one that follows a fallback included, calls the provider again
\* for that purpose.
ProgressSurvivesFallback ==
  \A p \in Procs :
    /\ pc[p] = "seo_call" => ~CacheHas(cache, SeoKey(Drug(p)))
    /\ pc[p] = "summary_call" => ~CacheHas(cache, SummaryKey(Drug(p)))
    /\ pc[p] = "batch_call" => ~CacheHas(cache, SectionsKey(Drug(p)))

\* C30 - only provider content is cached by the Gateway: every entry under
\* seo_metadata:<id>, drug_summary:<id> or enhanced_sections:<id> is content
\* obtained from a provider response, never a deterministic fallback; an empty
\* or failed provider response leaves those keys unwritten.
ParsedFrom(texts) == {t.value : t \in {u \in texts : u.syntax = "json"}}
OnlyProviderContentCached ==
  \A d \in DrugIds :
    /\ CacheHas(cache, SeoKey(Drugs[d])) =>
         /\ CacheGet(cache, SeoKey(Drugs[d])) \in ParsedFrom(SeoTexts)
         /\ CacheGet(cache, SeoKey(Drugs[d])) # getFallbackSEOMetadata(Drugs[d])
    /\ CacheHas(cache, SummaryKey(Drugs[d])) =>
         /\ CacheGet(cache, SummaryKey(Drugs[d])) \in
              {Str(Trim(t.chars)) : t \in SummaryTexts} \ {""}
         /\ CacheGet(cache, SummaryKey(Drugs[d])) # getFallbackSummary(Drugs[d])
    /\ CacheHas(cache, SectionsKey(Drugs[d])) =>
         CacheGet(cache, SectionsKey(Drugs[d])) \in
           ParsedFrom(SectionTexts(AvailableSections(Drugs[d])))

\* C29 - termination and call bound: when every provider call and cache call
\* resolves or rejects, every callOpenAIWithRetry invocation finishes after at
\* most 3 attempts and 2 backoff waits, and every getEnhancedContent call
\* returns, having made at most 9 provider calls in total.
InRetryLoop(p) ==
  pc[p] \in {"seo_call", "seo_sleep", "seo_retry", "summary_call", "summary_sleep",
             "summary_retry", "batch_call", "batch_sleep", "batch_retry"}
TerminationAndCallBound ==
  /\ [](\A p \in Procs : retrying[p].attempt <= 3 /\ retrying[p].waits <= 2)
  /\ [](\A p \in Procs : calls[p] <= 9)
  /\ \A p \in Procs : InRetryLoop(p) ~> ~InRetryLoop(p)
  /\ \A p \in Procs : (pc[p] = "gec_cacheGet") ~> (pc[p] = "done")
NineCallsThenGenerated ==
  /\ Finished(1) /\ path[1] = "generated"
  /\ calls[1] = 9
  /\ retrying[1] = [attempt |-> 3, waits |-> 2]
====
